---- MODULE Spec2Model ----
(***************************************************************************)
(* State-machine model of the OVERLAY users smart contract (src/lib.rs).   *)
(* The contract state is the five fields of `State`; every entrypoint is   *)
(* one action that runs the whole handler on the current state.  The       *)
(* record `last` holds the invocation that is being answered (its context, *)
(* its result and return value) and `pre` the contract state the handler   *)
(* started from, so that properties of a call are state predicates.        *)
(***************************************************************************)
EXTENDS Integers, Sequences, FiniteSets, TLC

\* ---------------------------------------------------------------- bounds
\* Number of state-changing calls explored from init; calls that leave the
\* state as it is are explored from every state.
MaxChanges == 3

\* Number of state-changing calls explored from init when only the curator
\* role is exercised (grant, record, revoke, grant again, record).
MaxCycle == 5

\* Number of state-changing calls explored from init when only roles are
\* granted and revoked, over three addresses.
MaxGrants == 5

\* ------------------------------------------------------------ value sets
\* AccountAddress values.
Accounts == {"acc0", "acc1"}
\* ContractAddress values (index, subindex); <<0, 0>> is what init stores.
ContractAddresses == {<<0, 0>>, <<1, 2>>}
\* ProjectId values.
ProjectIds == {"P1", "P2"}
\* ModuleReference values for upgrade.
ModuleReferences == {"mod1"}
\* Entrypoint/parameter pairs offered as migration call.
Migrations == {<<"migrate", "bytes">>}

\* An AccountAddress value that is the address of no account: it can be
\* written as a parameter but never originates or sends a call.
NullAccount == "acc_null"

\* Address::Account(a) and Address::Contract(c).
Account(a) == <<"Account", a>>
Contract(c) == <<"Contract", c>>
Addresses == {Account(a) : a \in Accounts} \cup {Contract(c) : c \in ContractAddresses}

\* Option<T>
None == <<"None">>
Some(x) == <<"Some", x>>

\* The unit value `()`.
Unit == <<>>

\* Parameter bytes that do not decode to any parameter type.
Malformed == [bytes |-> "malformed"]
\* The empty parameter of entrypoints that declare none.
NoParameter == [bytes |-> "empty"]

VARIABLES
    admin,                  \* State.admin
    project_contract_addr,  \* State.project_contract_addr
    user,                   \* State.user : partial map AccountAddress -> UserState
    curator_list,           \* State.curator_list
    validator_list,         \* State.validator_list
    owner,                  \* ctx.owner(): the account that created the instance
    pre,                    \* the contract state when the call in `last` started
    last,                   \* the call being answered, or NoCall
    changes,                \* number of state-changing calls so far
    granted                 \* the addresses that a successful add_curator or
                            \* add_validator has had as argument since init

vars == <<admin, project_contract_addr, user, curator_list, validator_list,
          owner, pre, last, changes, granted>>

\* The contract state as one value.
State ==
    [admin |-> admin,
     project_contract_addr |-> project_contract_addr,
     user |-> user,
     curator_list |-> curator_list,
     validator_list |-> validator_list]

\* ------------------------------------------------------- Vec / StateMap
contains(v, x) == \E i \in 1..Len(v) : v[i] = x

push(v, x) == Append(v, x)

\* Vec::retain(|y| *y != x)
retain_ne(v, x) == SelectSeq(v, LAMBDA y : y # x)

\* StateMap::insert / in-place update of one entry.
map_put(m, k, val) == [x \in (DOMAIN m) \cup {k} |-> IF x = k THEN val ELSE m[x]]

has_key(m, k) == k \in DOMAIN m

EmptyMap == [x \in {} |-> Unit]

UserState(c, v, cp, vp) ==
    [is_curator |-> c, is_validator |-> v,
     curated_projects |-> cp, validated_projects |-> vp]

\* ParseResult of `ctx.parameter_cursor().get()`: the bytes decode exactly
\* when they carry the fields of the parameter struct.
Parses(p, fields) == DOMAIN p = fields

\* ----------------------------------------------------- handler outcomes
\* A handler is a function of its receive context and the contract state
\* `st` it runs on; it yields the result, the state it leaves, the return
\* value and the host primitives it performed.
Err(st, e) == [result |-> e, state |-> st, ret |-> Unit, effects |-> <<>>]

Ok(st, r) == [result |-> "Ok", state |-> st, ret |-> r, effects |-> <<>>]

\* One host primitive called by a handler, with the host's answer.
Performed(primitive, ok) == [primitive |-> primitive, ok |-> ok]

\* Variant: the sentinel project contract address is not the one stored.
contract_init_other_sentinel(origin) ==
    [admin |-> origin,
     project_contract_addr |-> <<1, 2>>,
     user |-> EmptyMap,
     curator_list |-> <<>>,
     validator_list |-> <<>>]

\* ---------------------------------------------------------------- init
contract_init(origin) ==
    [admin |-> origin,
     project_contract_addr |-> <<0, 0>>,
     user |-> EmptyMap,
     curator_list |-> <<>>,
     validator_list |-> <<>>]

\* Variant: the invoker is checked before the parameter is decoded.
contract_transfer_admin_caller_first(ctx, st) ==
    IF ctx.invoker # st.admin THEN Err(st, "InvalidCaller")
    ELSE IF ~Parses(ctx.parameter, {"admin"}) THEN Err(st, "ParseParamsError")
    ELSE Ok([st EXCEPT !.admin = ctx.parameter.admin], Unit)

\* Variant: a transfer to the current admin is refused.
contract_transfer_admin_checked(ctx, st) ==
    IF ~Parses(ctx.parameter, {"admin"}) THEN Err(st, "ParseParamsError")
    ELSE IF ctx.invoker # st.admin THEN Err(st, "InvalidCaller")
    ELSE IF ctx.parameter.admin = st.admin THEN Err(st, "InvalidArgument")
    ELSE Ok([st EXCEPT !.admin = ctx.parameter.admin], Unit)

\* ------------------------------------------------------------ handlers
\* Variant: the admin check looks at the immediate caller, not the invoker.
contract_transfer_admin_by_sender(ctx, st) ==
    IF ~Parses(ctx.parameter, {"admin"}) THEN Err(st, "ParseParamsError")
    ELSE IF ctx.sender # Account(st.admin) THEN Err(st, "InvalidCaller")
    ELSE Ok([st EXCEPT !.admin = ctx.parameter.admin], Unit)

\* Variant: the admin check compares the invoker with the instance owner.
contract_transfer_admin_by_owner(ctx, st) ==
    IF ~Parses(ctx.parameter, {"admin"}) THEN Err(st, "ParseParamsError")
    ELSE IF ctx.invoker # ctx.owner THEN Err(st, "InvalidCaller")
    ELSE Ok([st EXCEPT !.admin = ctx.parameter.admin], Unit)

contract_transfer_admin(ctx, st) ==
    IF ~Parses(ctx.parameter, {"admin"}) THEN Err(st, "ParseParamsError")
    ELSE IF ctx.invoker # st.admin THEN Err(st, "InvalidCaller")
    ELSE Ok([st EXCEPT !.admin = ctx.parameter.admin], Unit)

\* Variant: the sentinel address (0, 0) is refused.
contract_add_project_contract_validated(ctx, st) ==
    IF ~Parses(ctx.parameter, {"project_contract_addr"}) THEN Err(st, "ParseParamsError")
    ELSE IF ctx.invoker # st.admin THEN Err(st, "InvalidCaller")
    ELSE IF ctx.parameter.project_contract_addr = <<0, 0>> THEN Err(st, "InvalidArgument")
    ELSE Ok([st EXCEPT !.project_contract_addr = ctx.parameter.project_contract_addr],
            Unit)

\* Variant: the admin check is missing.
contract_add_project_contract_unchecked(ctx, st) ==
    IF ~Parses(ctx.parameter, {"project_contract_addr"}) THEN Err(st, "ParseParamsError")
    ELSE Ok([st EXCEPT !.project_contract_addr = ctx.parameter.project_contract_addr],
            Unit)

\* Variant: the call is accepted but the address is not stored.
contract_add_project_contract_not_stored(ctx, st) ==
    IF ~Parses(ctx.parameter, {"project_contract_addr"}) THEN Err(st, "ParseParamsError")
    ELSE IF ctx.invoker # st.admin THEN Err(st, "InvalidCaller")
    ELSE Ok(st, Unit)

contract_add_project_contract(ctx, st) ==
    IF ~Parses(ctx.parameter, {"project_contract_addr"}) THEN Err(st, "ParseParamsError")
    ELSE IF ctx.invoker # st.admin THEN Err(st, "InvalidCaller")
    ELSE Ok([st EXCEPT !.project_contract_addr = ctx.parameter.project_contract_addr],
            Unit)

\* Variant: granting the role again starts the record's curated projects
\* afresh.
contract_add_curator_reset(ctx, st) ==
    IF ~Parses(ctx.parameter, {"addr"}) THEN Err(st, "ParseParamsError")
    ELSE IF ctx.invoker # st.admin THEN Err(st, "InvalidCaller")
    ELSE LET a == ctx.parameter.addr
             user1 == IF has_key(st.user, a)
                      THEN map_put(st.user, a,
                                   [st.user[a] EXCEPT
                                       !.curated_projects =
                                           IF st.user[a].is_curator THEN @ ELSE <<>>,
                                       !.is_curator = TRUE])
                      ELSE map_put(st.user, a, UserState(TRUE, FALSE, <<>>, <<>>))
             list1 == IF ~contains(st.curator_list, a)
                      THEN push(st.curator_list, a)
                      ELSE st.curator_list
         IN  Ok([st EXCEPT !.user = user1, !.curator_list = list1], Unit)

\* Variant: granting the role to an account that already holds it is an
\* error.
contract_add_curator_strict(ctx, st) ==
    IF ~Parses(ctx.parameter, {"addr"}) THEN Err(st, "ParseParamsError")
    ELSE IF ctx.invoker # st.admin THEN Err(st, "InvalidCaller")
    ELSE IF contains(st.curator_list, ctx.parameter.addr) THEN Err(st, "InvalidArgument")
    ELSE LET a == ctx.parameter.addr
             user1 == IF has_key(st.user, a)
                      THEN map_put(st.user, a, [st.user[a] EXCEPT !.is_curator = TRUE])
                      ELSE map_put(st.user, a, UserState(TRUE, FALSE, <<>>, <<>>))
         IN  Ok([st EXCEPT !.user = user1,
                           !.curator_list = push(st.curator_list, a)], Unit)

\* Variant: the account is pushed without the contains check.
contract_add_curator_push_always(ctx, st) ==
    IF ~Parses(ctx.parameter, {"addr"}) THEN Err(st, "ParseParamsError")
    ELSE IF ctx.invoker # st.admin THEN Err(st, "InvalidCaller")
    ELSE LET a == ctx.parameter.addr
             user1 == IF has_key(st.user, a)
                      THEN map_put(st.user, a, [st.user[a] EXCEPT !.is_curator = TRUE])
                      ELSE map_put(st.user, a, UserState(TRUE, FALSE, <<>>, <<>>))
         IN  Ok([st EXCEPT !.user = user1,
                           !.curator_list = push(st.curator_list, a)], Unit)

contract_add_curator(ctx, st) ==
    IF ~Parses(ctx.parameter, {"addr"}) THEN Err(st, "ParseParamsError")
    ELSE IF ctx.invoker # st.admin THEN Err(st, "InvalidCaller")
    ELSE LET a == ctx.parameter.addr
             user1 == IF has_key(st.user, a)
                      THEN map_put(st.user, a, [st.user[a] EXCEPT !.is_curator = TRUE])
                      ELSE map_put(st.user, a, UserState(TRUE, FALSE, <<>>, <<>>))
             list1 == IF ~contains(st.curator_list, a)
                      THEN push(st.curator_list, a)
                      ELSE st.curator_list
         IN  Ok([st EXCEPT !.user = user1, !.curator_list = list1], Unit)

\* Variant: the entry is removed by moving the last entry into its place
\* (Vec::swap_remove).
contract_remove_curator_swap(ctx, st) ==
    IF ~Parses(ctx.parameter, {"addr"}) THEN Err(st, "ParseParamsError")
    ELSE IF ctx.invoker # st.admin THEN Err(st, "InvalidCaller")
    ELSE LET a == ctx.parameter.addr
             v == st.curator_list
             user1 == IF has_key(st.user, a)
                      THEN map_put(st.user, a, [st.user[a] EXCEPT !.is_curator = FALSE])
                      ELSE st.user
             list1 == IF ~contains(v, a) THEN v
                      ELSE [i \in 1..(Len(v) - 1) |-> IF v[i] = a THEN v[Len(v)] ELSE v[i]]
         IN  Ok([st EXCEPT !.user = user1, !.curator_list = list1], Unit)

\* Variant: revoking the curator role revokes the validator role too.
contract_remove_curator_all_roles(ctx, st) ==
    IF ~Parses(ctx.parameter, {"addr"}) THEN Err(st, "ParseParamsError")
    ELSE IF ctx.invoker # st.admin THEN Err(st, "InvalidCaller")
    ELSE LET a == ctx.parameter.addr
             user1 == IF has_key(st.user, a)
                      THEN map_put(st.user, a, [st.user[a] EXCEPT !.is_curator = FALSE,
                                                                  !.is_validator = FALSE])
                      ELSE st.user
         IN  Ok([st EXCEPT !.user = user1,
                           !.curator_list = retain_ne(st.curator_list, a),
                           !.validator_list = retain_ne(st.validator_list, a)], Unit)

\* Variant: the entry is created when absent (or_insert_with after
\* and_modify, as in add_curator).
contract_remove_curator_or_insert(ctx, st) ==
    IF ~Parses(ctx.parameter, {"addr"}) THEN Err(st, "ParseParamsError")
    ELSE IF ctx.invoker # st.admin THEN Err(st, "InvalidCaller")
    ELSE LET a == ctx.parameter.addr
             user1 == IF has_key(st.user, a)
                      THEN map_put(st.user, a, [st.user[a] EXCEPT !.is_curator = FALSE])
                      ELSE map_put(st.user, a, UserState(FALSE, FALSE, <<>>, <<>>))
         IN  Ok([st EXCEPT !.user = user1,
                           !.curator_list = retain_ne(st.curator_list, a)], Unit)

contract_remove_curator(ctx, st) ==
    IF ~Parses(ctx.parameter, {"addr"}) THEN Err(st, "ParseParamsError")
    ELSE IF ctx.invoker # st.admin THEN Err(st, "InvalidCaller")
    ELSE LET a == ctx.parameter.addr
             user1 == IF has_key(st.user, a)
                      THEN map_put(st.user, a, [st.user[a] EXCEPT !.is_curator = FALSE])
                      ELSE st.user
         IN  Ok([st EXCEPT !.user = user1,
                           !.curator_list = retain_ne(st.curator_list, a)], Unit)

\* Variant: the record is inserted anew also when the account has one
\* (insert instead of and_modify / or_insert_with).
contract_add_validator_overwrite(ctx, st) ==
    IF ~Parses(ctx.parameter, {"addr"}) THEN Err(st, "ParseParamsError")
    ELSE IF ctx.invoker # st.admin THEN Err(st, "InvalidCaller")
    ELSE LET a == ctx.parameter.addr
             user1 == map_put(st.user, a, UserState(FALSE, TRUE, <<>>, <<>>))
             list1 == IF ~contains(st.validator_list, a)
                      THEN push(st.validator_list, a)
                      ELSE st.validator_list
         IN  Ok([st EXCEPT !.user = user1, !.validator_list = list1], Unit)

\* Variant: the admin must also be the immediate caller.
contract_add_validator_direct_only(ctx, st) ==
    IF ~Parses(ctx.parameter, {"addr"}) THEN Err(st, "ParseParamsError")
    ELSE IF ctx.invoker # st.admin \/ ctx.sender # Account(st.admin)
         THEN Err(st, "InvalidCaller")
    ELSE LET a == ctx.parameter.addr
             user1 == IF has_key(st.user, a)
                      THEN map_put(st.user, a, [st.user[a] EXCEPT !.is_validator = TRUE])
                      ELSE map_put(st.user, a, UserState(FALSE, TRUE, <<>>, <<>>))
             list1 == IF ~contains(st.validator_list, a)
                      THEN push(st.validator_list, a)
                      ELSE st.validator_list
         IN  Ok([st EXCEPT !.user = user1, !.validator_list = list1], Unit)

\* Variant: the account is pushed without the contains check.
contract_add_validator_push_always(ctx, st) ==
    IF ~Parses(ctx.parameter, {"addr"}) THEN Err(st, "ParseParamsError")
    ELSE IF ctx.invoker # st.admin THEN Err(st, "InvalidCaller")
    ELSE LET a == ctx.parameter.addr
             user1 == IF has_key(st.user, a)
                      THEN map_put(st.user, a, [st.user[a] EXCEPT !.is_validator = TRUE])
                      ELSE map_put(st.user, a, UserState(FALSE, TRUE, <<>>, <<>>))
         IN  Ok([st EXCEPT !.user = user1,
                           !.validator_list = push(st.validator_list, a)], Unit)

contract_add_validator(ctx, st) ==
    IF ~Parses(ctx.parameter, {"addr"}) THEN Err(st, "ParseParamsError")
    ELSE IF ctx.invoker # st.admin THEN Err(st, "InvalidCaller")
    ELSE LET a == ctx.parameter.addr
             user1 == IF has_key(st.user, a)
                      THEN map_put(st.user, a, [st.user[a] EXCEPT !.is_validator = TRUE])
                      ELSE map_put(st.user, a, UserState(FALSE, TRUE, <<>>, <<>>))
             list1 == IF ~contains(st.validator_list, a)
                      THEN push(st.validator_list, a)
                      ELSE st.validator_list
         IN  Ok([st EXCEPT !.user = user1, !.validator_list = list1], Unit)

\* Variant: the entry is created when absent (or_insert_with after
\* and_modify, as in add_validator).
contract_remove_validator_or_insert(ctx, st) ==
    IF ~Parses(ctx.parameter, {"addr"}) THEN Err(st, "ParseParamsError")
    ELSE IF ctx.invoker # st.admin THEN Err(st, "InvalidCaller")
    ELSE LET a == ctx.parameter.addr
             user1 == IF has_key(st.user, a)
                      THEN map_put(st.user, a, [st.user[a] EXCEPT !.is_validator = FALSE])
                      ELSE map_put(st.user, a, UserState(FALSE, FALSE, <<>>, <<>>))
         IN  Ok([st EXCEPT !.user = user1,
                           !.validator_list = retain_ne(st.validator_list, a)], Unit)

\* Variant: a record left without any role is removed from the map.
contract_remove_validator_drop_record(ctx, st) ==
    IF ~Parses(ctx.parameter, {"addr"}) THEN Err(st, "ParseParamsError")
    ELSE IF ctx.invoker # st.admin THEN Err(st, "InvalidCaller")
    ELSE LET a == ctx.parameter.addr
             user1 == IF has_key(st.user, a)
                      THEN IF st.user[a].is_curator
                           THEN map_put(st.user, a,
                                        [st.user[a] EXCEPT !.is_validator = FALSE])
                           ELSE [x \in (DOMAIN st.user) \ {a} |-> st.user[x]]
                      ELSE st.user
         IN  Ok([st EXCEPT !.user = user1,
                           !.validator_list = retain_ne(st.validator_list, a)], Unit)

\* Variant: revoking the role also clears the projects recorded under it.
contract_remove_validator_purge(ctx, st) ==
    IF ~Parses(ctx.parameter, {"addr"}) THEN Err(st, "ParseParamsError")
    ELSE IF ctx.invoker # st.admin THEN Err(st, "InvalidCaller")
    ELSE LET a == ctx.parameter.addr
             user1 == IF has_key(st.user, a)
                      THEN map_put(st.user, a, [st.user[a] EXCEPT
                                                  !.is_validator = FALSE,
                                                  !.validated_projects = <<>>])
                      ELSE st.user
         IN  Ok([st EXCEPT !.user = user1,
                           !.validator_list = retain_ne(st.validator_list, a)], Unit)

contract_remove_validator(ctx, st) ==
    IF ~Parses(ctx.parameter, {"addr"}) THEN Err(st, "ParseParamsError")
    ELSE IF ctx.invoker # st.admin THEN Err(st, "InvalidCaller")
    ELSE LET a == ctx.parameter.addr
             user1 == IF has_key(st.user, a)
                      THEN map_put(st.user, a, [st.user[a] EXCEPT !.is_validator = FALSE])
                      ELSE st.user
         IN  Ok([st EXCEPT !.user = user1,
                           !.validator_list = retain_ne(st.validator_list, a)], Unit)

\* Variant: every contract is accepted as sender, only accounts are
\* refused.
contract_curate_any_contract(ctx, st) ==
    IF ~Parses(ctx.parameter, {"addr", "project_id"}) THEN Err(st, "ParseParamsError")
    ELSE IF ctx.sender \notin {Contract(c) : c \in ContractAddresses}
         THEN Err(st, "InvalidCaller")
    ELSE IF ~has_key(st.user, ctx.parameter.addr) THEN Err(st, "InvalidArgument")
    ELSE IF ~st.user[ctx.parameter.addr].is_curator THEN Err(st, "InvalidArgument")
    ELSE LET a == ctx.parameter.addr
             p == ctx.parameter.project_id
             target_user == st.user[a]
             projects1 == IF ~contains(target_user.curated_projects, p)
                          THEN push(target_user.curated_projects, p)
                          ELSE target_user.curated_projects
         IN  Ok([st EXCEPT !.user =
                    map_put(st.user, a, [target_user EXCEPT !.curated_projects = projects1])],
                Unit)

\* Variant: a record is created for a target that has none.
contract_curate_or_insert(ctx, st) ==
    IF ~Parses(ctx.parameter, {"addr", "project_id"}) THEN Err(st, "ParseParamsError")
    ELSE IF ctx.sender # Contract(st.project_contract_addr) THEN Err(st, "InvalidCaller")
    ELSE IF ~has_key(st.user, ctx.parameter.addr)
         THEN Ok([st EXCEPT !.user =
                     map_put(st.user, ctx.parameter.addr,
                             UserState(FALSE, FALSE, <<ctx.parameter.project_id>>, <<>>))],
                 Unit)
    ELSE IF ~st.user[ctx.parameter.addr].is_curator THEN Err(st, "InvalidArgument")
    ELSE LET a == ctx.parameter.addr
             p == ctx.parameter.project_id
             target_user == st.user[a]
             projects1 == IF ~contains(target_user.curated_projects, p)
                          THEN push(target_user.curated_projects, p)
                          ELSE target_user.curated_projects
         IN  Ok([st EXCEPT !.user =
                    map_put(st.user, a, [target_user EXCEPT !.curated_projects = projects1])],
                Unit)

\* Variant: the target's record and role are checked before the sender.
contract_curate_target_first(ctx, st) ==
    IF ~Parses(ctx.parameter, {"addr", "project_id"}) THEN Err(st, "ParseParamsError")
    ELSE IF ~has_key(st.user, ctx.parameter.addr) THEN Err(st, "InvalidArgument")
    ELSE IF ~st.user[ctx.parameter.addr].is_curator THEN Err(st, "InvalidArgument")
    ELSE IF ctx.sender # Contract(st.project_contract_addr) THEN Err(st, "InvalidCaller")
    ELSE LET a == ctx.parameter.addr
             p == ctx.parameter.project_id
             target_user == st.user[a]
             projects1 == IF ~contains(target_user.curated_projects, p)
                          THEN push(target_user.curated_projects, p)
                          ELSE target_user.curated_projects
         IN  Ok([st EXCEPT !.user =
                    map_put(st.user, a, [target_user EXCEPT !.curated_projects = projects1])],
                Unit)

\* Variant: the project id is pushed without the contains check.
contract_curate_push_always(ctx, st) ==
    IF ~Parses(ctx.parameter, {"addr", "project_id"}) THEN Err(st, "ParseParamsError")
    ELSE IF ctx.sender # Contract(st.project_contract_addr) THEN Err(st, "InvalidCaller")
    ELSE IF ~has_key(st.user, ctx.parameter.addr) THEN Err(st, "InvalidArgument")
    ELSE IF ~st.user[ctx.parameter.addr].is_curator THEN Err(st, "InvalidArgument")
    ELSE LET a == ctx.parameter.addr
             p == ctx.parameter.project_id
             target_user == st.user[a]
         IN  Ok([st EXCEPT !.user =
                    map_put(st.user, a, [target_user EXCEPT
                        !.curated_projects = push(target_user.curated_projects, p)])],
                Unit)

\* Variant: the record must exist but its is_curator flag is not checked.
contract_curate_no_role_check(ctx, st) ==
    IF ~Parses(ctx.parameter, {"addr", "project_id"}) THEN Err(st, "ParseParamsError")
    ELSE IF ctx.sender # Contract(st.project_contract_addr) THEN Err(st, "InvalidCaller")
    ELSE IF ~has_key(st.user, ctx.parameter.addr) THEN Err(st, "InvalidArgument")
    ELSE LET a == ctx.parameter.addr
             p == ctx.parameter.project_id
             target_user == st.user[a]
             projects1 == IF ~contains(target_user.curated_projects, p)
                          THEN push(target_user.curated_projects, p)
                          ELSE target_user.curated_projects
         IN  Ok([st EXCEPT !.user =
                    map_put(st.user, a, [target_user EXCEPT !.curated_projects = projects1])],
                Unit)

contract_curate(ctx, st) ==
    IF ~Parses(ctx.parameter, {"addr", "project_id"}) THEN Err(st, "ParseParamsError")
    ELSE IF ctx.sender # Contract(st.project_contract_addr) THEN Err(st, "InvalidCaller")
    ELSE IF ~has_key(st.user, ctx.parameter.addr) THEN Err(st, "InvalidArgument")
    ELSE IF ~st.user[ctx.parameter.addr].is_curator THEN Err(st, "InvalidArgument")
    ELSE LET a == ctx.parameter.addr
             p == ctx.parameter.project_id
             target_user == st.user[a]
             projects1 == IF ~contains(target_user.curated_projects, p)
                          THEN push(target_user.curated_projects, p)
                          ELSE target_user.curated_projects
         IN  Ok([st EXCEPT !.user =
                    map_put(st.user, a, [target_user EXCEPT !.curated_projects = projects1])],
                Unit)

\* Variant: while the address stored at init, (0, 0), is still registered,
\* nobody is accepted as sender.
contract_validate_no_sentinel(ctx, st) ==
    IF ~Parses(ctx.parameter, {"addr", "project_id"}) THEN Err(st, "ParseParamsError")
    ELSE IF st.project_contract_addr = <<0, 0>>
            \/ ctx.sender # Contract(st.project_contract_addr)
         THEN Err(st, "InvalidCaller")
    ELSE IF ~has_key(st.user, ctx.parameter.addr) THEN Err(st, "InvalidArgument")
    ELSE IF ~st.user[ctx.parameter.addr].is_validator THEN Err(st, "InvalidArgument")
    ELSE LET a == ctx.parameter.addr
             p == ctx.parameter.project_id
             target_user == st.user[a]
             projects1 == IF ~contains(target_user.validated_projects, p)
                          THEN push(target_user.validated_projects, p)
                          ELSE target_user.validated_projects
         IN  Ok([st EXCEPT !.user =
                    map_put(st.user, a, [target_user EXCEPT !.validated_projects = projects1])],
                Unit)

\* Variant: a call originated by the admin passes the sender check.
contract_validate_admin_override(ctx, st) ==
    IF ~Parses(ctx.parameter, {"addr", "project_id"}) THEN Err(st, "ParseParamsError")
    ELSE IF ctx.sender # Contract(st.project_contract_addr) /\ ctx.invoker # st.admin
         THEN Err(st, "InvalidCaller")
    ELSE IF ~has_key(st.user, ctx.parameter.addr) THEN Err(st, "InvalidArgument")
    ELSE IF ~st.user[ctx.parameter.addr].is_validator THEN Err(st, "InvalidArgument")
    ELSE LET a == ctx.parameter.addr
             p == ctx.parameter.project_id
             target_user == st.user[a]
             projects1 == IF ~contains(target_user.validated_projects, p)
                          THEN push(target_user.validated_projects, p)
                          ELSE target_user.validated_projects
         IN  Ok([st EXCEPT !.user =
                    map_put(st.user, a, [target_user EXCEPT !.validated_projects = projects1])],
                Unit)

\* Variant: the project id is pushed before the role flag is checked.
contract_validate_push_first(ctx, st) ==
    IF ~Parses(ctx.parameter, {"addr", "project_id"}) THEN Err(st, "ParseParamsError")
    ELSE IF ctx.sender # Contract(st.project_contract_addr) THEN Err(st, "InvalidCaller")
    ELSE IF ~has_key(st.user, ctx.parameter.addr) THEN Err(st, "InvalidArgument")
    ELSE LET a == ctx.parameter.addr
             p == ctx.parameter.project_id
             target_user == st.user[a]
             projects1 == IF ~contains(target_user.validated_projects, p)
                          THEN push(target_user.validated_projects, p)
                          ELSE target_user.validated_projects
             st1 == [st EXCEPT !.user =
                        map_put(st.user, a,
                                [target_user EXCEPT !.validated_projects = projects1])]
         IN  IF ~target_user.is_validator THEN Err(st1, "InvalidArgument")
             ELSE Ok(st1, Unit)

\* Variant: permissive recording; a missing record is a successful no-op
\* and the is_validator flag is not checked.
contract_validate_permissive(ctx, st) ==
    IF ~Parses(ctx.parameter, {"addr", "project_id"}) THEN Err(st, "ParseParamsError")
    ELSE IF ctx.sender # Contract(st.project_contract_addr) THEN Err(st, "InvalidCaller")
    ELSE IF ~has_key(st.user, ctx.parameter.addr) THEN Ok(st, Unit)
    ELSE LET a == ctx.parameter.addr
             p == ctx.parameter.project_id
             target_user == st.user[a]
             projects1 == IF ~contains(target_user.validated_projects, p)
                          THEN push(target_user.validated_projects, p)
                          ELSE target_user.validated_projects
         IN  Ok([st EXCEPT !.user =
                    map_put(st.user, a, [target_user EXCEPT !.validated_projects = projects1])],
                Unit)

contract_validate(ctx, st) ==
    IF ~Parses(ctx.parameter, {"addr", "project_id"}) THEN Err(st, "ParseParamsError")
    ELSE IF ctx.sender # Contract(st.project_contract_addr) THEN Err(st, "InvalidCaller")
    ELSE IF ~has_key(st.user, ctx.parameter.addr) THEN Err(st, "InvalidArgument")
    ELSE IF ~st.user[ctx.parameter.addr].is_validator THEN Err(st, "InvalidArgument")
    ELSE LET a == ctx.parameter.addr
             p == ctx.parameter.project_id
             target_user == st.user[a]
             projects1 == IF ~contains(target_user.validated_projects, p)
                          THEN push(target_user.validated_projects, p)
                          ELSE target_user.validated_projects
         IN  Ok([st EXCEPT !.user =
                    map_put(st.user, a, [target_user EXCEPT !.validated_projects = projects1])],
                Unit)

\* Variant: the sender is compared with the admin of the state instead of
\* the owner of the instance.
contract_upgrade_by_admin(ctx, host, st) ==
    IF ctx.sender # Account(st.admin) THEN Err(st, "Reject")
    ELSE IF ~Parses(ctx.parameter, {"module", "migrate"}) THEN Err(st, "ParseError")
    ELSE IF ~host.upgrade_ok
         THEN [Err(st, "UpgradeError") EXCEPT !.effects = <<Performed("upgrade", FALSE)>>]
    ELSE IF ctx.parameter.migrate = None
         THEN [Ok(st, Unit) EXCEPT !.effects = <<Performed("upgrade", TRUE)>>]
    ELSE IF ~host.invoke_ok
         THEN [Err(st, "CallContractError") EXCEPT
                  !.effects = <<Performed("upgrade", TRUE),
                                Performed("invoke_contract_raw", FALSE)>>]
    ELSE [Ok(st, Unit) EXCEPT
             !.effects = <<Performed("upgrade", TRUE),
                           Performed("invoke_contract_raw", TRUE)>>]

\* Variant: the owner check is missing.
contract_upgrade_unguarded(ctx, host, st) ==
    IF ~Parses(ctx.parameter, {"module", "migrate"}) THEN Err(st, "ParseError")
    ELSE IF ~host.upgrade_ok
         THEN [Err(st, "UpgradeError") EXCEPT !.effects = <<Performed("upgrade", FALSE)>>]
    ELSE IF ctx.parameter.migrate = None
         THEN [Ok(st, Unit) EXCEPT !.effects = <<Performed("upgrade", TRUE)>>]
    ELSE IF ~host.invoke_ok
         THEN [Err(st, "CallContractError") EXCEPT
                  !.effects = <<Performed("upgrade", TRUE),
                                Performed("invoke_contract_raw", FALSE)>>]
    ELSE [Ok(st, Unit) EXCEPT
             !.effects = <<Performed("upgrade", TRUE),
                           Performed("invoke_contract_raw", TRUE)>>]

\* Variant: the answer of the migration call is dropped instead of
\* propagated with `?`.
contract_upgrade_swallow(ctx, host, st) ==
    IF ctx.sender # Account(ctx.owner) THEN Err(st, "Reject")
    ELSE IF ~Parses(ctx.parameter, {"module", "migrate"}) THEN Err(st, "ParseError")
    ELSE IF ~host.upgrade_ok
         THEN [Err(st, "UpgradeError") EXCEPT !.effects = <<Performed("upgrade", FALSE)>>]
    ELSE IF ctx.parameter.migrate = None
         THEN [Ok(st, Unit) EXCEPT !.effects = <<Performed("upgrade", TRUE)>>]
    ELSE [Ok(st, Unit) EXCEPT
             !.effects = <<Performed("upgrade", TRUE),
                           Performed("invoke_contract_raw", host.invoke_ok)>>]

\* `host` carries the answers of the two host primitives: whether
\* host.upgrade(module) and host.invoke_contract_raw(self_address, ..)
\* succeed.  `effects` lists the primitives performed, in order, each with
\* its answer; invoke_contract_raw enters the instance itself again.  The
\* entrypoint it runs is code of the module named by params.module, not of
\* this contract: only its answer is part of the model.
contract_upgrade(ctx, host, st) ==
    IF ctx.sender # Account(ctx.owner) THEN Err(st, "Reject")
    ELSE IF ~Parses(ctx.parameter, {"module", "migrate"}) THEN Err(st, "ParseError")
    ELSE IF ~host.upgrade_ok
         THEN [Err(st, "UpgradeError") EXCEPT !.effects = <<Performed("upgrade", FALSE)>>]
    ELSE IF ctx.parameter.migrate = None
         THEN [Ok(st, Unit) EXCEPT !.effects = <<Performed("upgrade", TRUE)>>]
    ELSE IF ~host.invoke_ok
         THEN [Err(st, "CallContractError") EXCEPT
                  !.effects = <<Performed("upgrade", TRUE),
                                Performed("invoke_contract_raw", FALSE)>>]
    ELSE [Ok(st, Unit) EXCEPT
             !.effects = <<Performed("upgrade", TRUE),
                           Performed("invoke_contract_raw", TRUE)>>]

\* Variant: the curator list is returned newest first.
contract_view_admin_reversed(ctx, st) ==
    IF ctx.invoker # st.admin THEN Err(st, "InvalidCaller")
    ELSE Ok(st, [admin |-> st.admin,
                 project_contract_addr |-> st.project_contract_addr,
                 curator_list |-> [i \in 1..Len(st.curator_list) |->
                                      st.curator_list[Len(st.curator_list) + 1 - i]],
                 validator_list |-> st.validator_list])

contract_view_admin(ctx, st) ==
    IF ctx.invoker # st.admin THEN Err(st, "InvalidCaller")
    ELSE Ok(st, [admin |-> st.admin,
                 project_contract_addr |-> st.project_contract_addr,
                 curator_list |-> st.curator_list,
                 validator_list |-> st.validator_list])

\* Variant: the default record returned for an absent account is also
\* stored (entry().or_insert_with on a mutable state).
contract_view_user_inserting(ctx, st) ==
    IF ~Parses(ctx.parameter, {"addr"}) THEN Err(st, "ParseParamsError")
    ELSE IF has_key(st.user, ctx.parameter.addr)
         THEN Ok(st, st.user[ctx.parameter.addr])
    ELSE Ok([st EXCEPT !.user = map_put(st.user, ctx.parameter.addr,
                                        UserState(FALSE, FALSE, <<>>, <<>>))],
            UserState(FALSE, FALSE, <<>>, <<>>))

\* Variant: an account without record is reported as an error.
contract_view_user_strict(ctx, st) ==
    IF ~Parses(ctx.parameter, {"addr"}) THEN Err(st, "ParseParamsError")
    ELSE IF ~has_key(st.user, ctx.parameter.addr) THEN Err(st, "InvalidArgument")
    ELSE Ok(st, st.user[ctx.parameter.addr])

contract_view_user(ctx, st) ==
    IF ~Parses(ctx.parameter, {"addr"}) THEN Err(st, "ParseParamsError")
    ELSE Ok(st, IF has_key(st.user, ctx.parameter.addr)
                THEN st.user[ctx.parameter.addr]
                ELSE UserState(FALSE, FALSE, <<>>, <<>>))

\* Variant: records that hold no role are left out of the answer.
contract_view_users_active_only(ctx, order, st) ==
    LET active == SelectSeq(order, LAMBDA a : st.user[a].is_curator
                                                  \/ st.user[a].is_validator)
    IN  Ok(st, [i \in 1..Len(active) |-> <<active[i], st.user[active[i]]>>])

\* `order` is the order in which StateMap::iter yields the keys.
contract_view_users(ctx, order, st) ==
    Ok(st, [i \in 1..Len(order) |-> <<order[i], st.user[order[i]]>>])

\* -------------------------------------------------------------- inputs
\* A receive context: the originating account, the immediate caller, the
\* instance owner and the parameter bytes.
Contexts(params) ==
    [invoker : Accounts, sender : Addresses, owner : {owner}, parameter : params]

AddrParams == [addr : Accounts]

\* TransferAdminParam: any 32 bytes are an AccountAddress.
TransferAdminParams == [admin : Accounts \cup {NullAccount}]

ProjectParams == [addr : Accounts, project_id : ProjectIds]

UpgradeParams ==
    [module : ModuleReferences, migrate : {None} \cup {Some(m) : m \in Migrations}]

\* All orders in which the keys of the user map can be enumerated.
KeyOrders ==
    {s \in [1..Cardinality(DOMAIN user) -> DOMAIN user] :
        \A i, j \in 1..Cardinality(DOMAIN user) : i # j => s[i] # s[j]}

NoCall == [op |-> "none"]

Idle == last.op = "none"

\* One invocation of entrypoint `op` with context `ctx` whose handler
\* produced `out`: the contract state becomes out.state and the call is
\* recorded together with the state it started from.
InvokeWithin(bound, op, ctx, out) ==
    /\ Idle
    /\ (out.state # State => changes < bound)
    /\ admin' = out.state.admin
    /\ project_contract_addr' = out.state.project_contract_addr
    /\ user' = out.state.user
    /\ curator_list' = out.state.curator_list
    /\ validator_list' = out.state.validator_list
    /\ pre' = State
    /\ last' = [op |-> op, invoker |-> ctx.invoker, sender |-> ctx.sender,
                parameter |-> ctx.parameter, result |-> out.result,
                ret |-> out.ret, effects |-> out.effects]
    /\ changes' = IF out.state # State THEN changes + 1 ELSE changes
    /\ granted' = IF op \in {"add_curator", "add_validator"} /\ out.result = "Ok"
                  THEN granted \cup {ctx.parameter.addr}
                  ELSE granted
    /\ UNCHANGED owner

Invoke(op, ctx, out) == InvokeWithin(MaxChanges, op, ctx, out)

\* ------------------------------------------------------------- actions
Init ==
    \E origin \in Accounts :
        /\ admin = contract_init(origin).admin
        /\ project_contract_addr = contract_init(origin).project_contract_addr
        /\ user = contract_init(origin).user
        /\ curator_list = contract_init(origin).curator_list
        /\ validator_list = contract_init(origin).validator_list
        /\ owner = origin
        /\ pre = contract_init(origin)
        /\ last = NoCall
        /\ changes = 0
        /\ granted = {}

TransferAdmin ==
    \E ctx \in Contexts(TransferAdminParams \cup {Malformed}) :
        Invoke("transfer_admin", ctx, contract_transfer_admin(ctx, State))

AddProjectContract ==
    \E ctx \in Contexts([project_contract_addr : ContractAddresses] \cup {Malformed}) :
        Invoke("add_project_contract", ctx, contract_add_project_contract(ctx, State))

AddCurator ==
    \E ctx \in Contexts(AddrParams \cup {Malformed}) :
        Invoke("add_curator", ctx, contract_add_curator(ctx, State))

RemoveCurator ==
    \E ctx \in Contexts(AddrParams \cup {Malformed}) :
        Invoke("remove_curator", ctx, contract_remove_curator(ctx, State))

AddValidator ==
    \E ctx \in Contexts(AddrParams \cup {Malformed}) :
        Invoke("add_validator", ctx, contract_add_validator(ctx, State))

RemoveValidator ==
    \E ctx \in Contexts(AddrParams \cup {Malformed}) :
        Invoke("remove_validator", ctx, contract_remove_validator(ctx, State))

Curate ==
    \E ctx \in Contexts(ProjectParams \cup {Malformed}) :
        Invoke("curate", ctx, contract_curate(ctx, State))

Validate ==
    \E ctx \in Contexts(ProjectParams \cup {Malformed}) :
        Invoke("validate", ctx, contract_validate(ctx, State))

Upgrade ==
    \E ctx \in Contexts(UpgradeParams \cup {Malformed}) :
        \E host \in [upgrade_ok : BOOLEAN, invoke_ok : BOOLEAN] :
            Invoke("upgrade", ctx, contract_upgrade(ctx, host, State))

ViewAdmin ==
    \E ctx \in Contexts({NoParameter}) :
        Invoke("view_admin", ctx, contract_view_admin(ctx, State))

ViewUser ==
    \E ctx \in Contexts(AddrParams \cup {Malformed}) :
        Invoke("view_user", ctx, contract_view_user(ctx, State))

ViewUsers ==
    \E ctx \in Contexts({NoParameter}) :
        \E order \in KeyOrders :
            Invoke("view_users", ctx, contract_view_users(ctx, order, State))

\* The handler's result has been handed back to the host; the next
\* invocation can start.
Return ==
    /\ ~Idle
    /\ last' = NoCall
    /\ pre' = State
    /\ UNCHANGED <<admin, project_contract_addr, user, curator_list,
                   validator_list, owner, changes, granted>>

Next ==
    \/ TransferAdmin
    \/ AddProjectContract
    \/ AddCurator
    \/ RemoveCurator
    \/ AddValidator
    \/ RemoveValidator
    \/ Curate
    \/ Validate
    \/ Upgrade
    \/ ViewAdmin
    \/ ViewUser
    \/ ViewUsers
    \/ Return

Spec == Init /\ [][Next]_vars

\* ------------------------------------------- the curator role, explored deeper
\* The same instance under calls of add_curator, remove_curator and curate
\* only, followed for MaxCycle state changes.
AddCuratorDeep ==
    \E ctx \in Contexts(AddrParams \cup {Malformed}) :
        InvokeWithin(MaxCycle, "add_curator", ctx, contract_add_curator(ctx, State))

RemoveCuratorDeep ==
    \E ctx \in Contexts(AddrParams \cup {Malformed}) :
        InvokeWithin(MaxCycle, "remove_curator", ctx, contract_remove_curator(ctx, State))

CurateDeep ==
    \E ctx \in Contexts(ProjectParams \cup {Malformed}) :
        InvokeWithin(MaxCycle, "curate", ctx, contract_curate(ctx, State))

NextCuratorCycle ==
    \/ AddCuratorDeep
    \/ RemoveCuratorDeep
    \/ CurateDeep
    \/ Return

SpecCuratorCycle == Init /\ [][NextCuratorCycle]_vars

\* ------------------------------------- the membership lists, three addresses
\* AddCuratorParam and the like carry any AccountAddress: the addresses of
\* the accounts and one that no account has.
WideAddrParams == [addr : Accounts \cup {NullAccount}]

\* The same instance under grants and revocations only, over three
\* addresses, followed for MaxGrants state changes.
AddCuratorWide ==
    \E ctx \in Contexts(WideAddrParams \cup {Malformed}) :
        InvokeWithin(MaxGrants, "add_curator", ctx, contract_add_curator(ctx, State))

RemoveCuratorWide ==
    \E ctx \in Contexts(WideAddrParams \cup {Malformed}) :
        InvokeWithin(MaxGrants, "remove_curator", ctx, contract_remove_curator(ctx, State))

AddValidatorWide ==
    \E ctx \in Contexts(WideAddrParams \cup {Malformed}) :
        InvokeWithin(MaxGrants, "add_validator", ctx, contract_add_validator(ctx, State))

RemoveValidatorWide ==
    \E ctx \in Contexts(WideAddrParams \cup {Malformed}) :
        InvokeWithin(MaxGrants, "remove_validator", ctx,
                     contract_remove_validator(ctx, State))

NextMembership ==
    \/ AddCuratorWide
    \/ RemoveCuratorWide
    \/ AddValidatorWide
    \/ RemoveValidatorWide
    \/ Return

SpecMembership == Init /\ [][NextMembership]_vars

\* ============================================================== claims
\* Vocabulary of the properties below.
Answered(op) == last.op = op

\* The call in `last` carried parameter bytes that decode.
Decoded == last.parameter # Malformed

\* Number of positions of sequence v that hold x.
Occurrences(v, x) == Cardinality({i \in 1..Len(v) : v[i] = x})

NoDuplicates(v) == \A i, j \in 1..Len(v) : v[i] = v[j] => i = j

AdminGated ==
    {"transfer_admin", "add_project_contract", "add_curator", "remove_curator",
     "add_validator", "remove_validator", "view_admin"}

\* Contexts in which the current admin originates a call on account a.
AdminContexts(a) ==
    {ctx \in Contexts(AddrParams) : ctx.invoker = admin /\ ctx.parameter.addr = a}

\* ------------------------------------------------------------------ C1
\* C1: in every reachable state an account is in curator_list exactly when
\* it has a user record with is_curator = true, curator_list holds no
\* account twice, and the same holds for validator_list and is_validator.
C1_ListsMatchFlags ==
    /\ \A a \in Accounts :
          /\ contains(curator_list, a) <=> (has_key(user, a) /\ user[a].is_curator)
          /\ contains(validator_list, a) <=> (has_key(user, a) /\ user[a].is_validator)
    /\ NoDuplicates(curator_list)
    /\ NoDuplicates(validator_list)

\* A role was granted again to an account that already held it, while
\* another account holds the role too.
C1_Witness ==
    /\ Answered("add_curator")
    /\ last.result = "Ok"
    /\ contains(pre.curator_list, last.parameter.addr)
    /\ Len(curator_list) = 2

\* ------------------------------------------------------------------ C2
\* C2: every admin-gated entrypoint (transfer_admin, add_project_contract,
\* add_curator, remove_curator, add_validator, remove_validator,
\* view_admin) called with a decodable parameter by an invoker other than
\* the current admin fails with InvalidCaller.
C2_NonAdminRejected ==
    (last.op \in AdminGated /\ Decoded /\ last.invoker # pre.admin)
        => last.result = "InvalidCaller"

\* The creator of the instance, no longer admin, is rejected by view_admin
\* although it is the immediate caller.
C2_Witness ==
    /\ Answered("view_admin")
    /\ last.invoker = owner
    /\ last.sender = Account(owner)
    /\ pre.admin # owner
    /\ last.result = "InvalidCaller"

\* ------------------------------------------------------------------ C3
\* C3: curate and validate called (with a decodable parameter) by a sender
\* other than Address::Contract(project_contract_addr) fail with
\* InvalidCaller, whatever roles the sender holds and whether or not the
\* target account has a record or the role; never InvalidArgument.
C3_WrongSenderInvalidCaller ==
    (last.op \in {"curate", "validate"} /\ Decoded
        /\ last.sender # Contract(pre.project_contract_addr))
        => last.result = "InvalidCaller"

\* A curator account itself calls curate for an account without record.
C3_Witness ==
    /\ Answered("curate")
    /\ last.result = "InvalidCaller"
    /\ \E a \in Accounts :
          /\ last.sender = Account(a)
          /\ has_key(pre.user, a)
          /\ pre.user[a].is_curator
    /\ ~has_key(pre.user, last.parameter.addr)

\* ------------------------------------------------------------------ C4
\* C4: called by the registered project contract, curate fails with
\* InvalidArgument when the target has no record and when its record has
\* is_curator = false; validate likewise with is_validator; in these
\* cases the state (so every project list) is unchanged.
C4_MissingRoleInvalidArgument ==
    /\ (Answered("curate") /\ Decoded
          /\ last.sender = Contract(pre.project_contract_addr)
          /\ (~has_key(pre.user, last.parameter.addr)
                \/ ~pre.user[last.parameter.addr].is_curator))
        => (last.result = "InvalidArgument" /\ State = pre)
    /\ (Answered("validate") /\ Decoded
          /\ last.sender = Contract(pre.project_contract_addr)
          /\ (~has_key(pre.user, last.parameter.addr)
                \/ ~pre.user[last.parameter.addr].is_validator))
        => (last.result = "InvalidArgument" /\ State = pre)

\* validate for an account that has a record and is a curator, but not a
\* validator.
C4_Witness ==
    /\ Answered("validate")
    /\ last.sender = Contract(pre.project_contract_addr)
    /\ last.result = "InvalidArgument"
    /\ has_key(pre.user, last.parameter.addr)
    /\ pre.user[last.parameter.addr].is_curator
    /\ ~pre.user[last.parameter.addr].is_validator

\* ------------------------------------------------------------------ C5
\* C5: no project id occurs twice in any curated_projects or
\* validated_projects; a successful curate(a, p) appends p when it is not
\* yet in a's curated_projects and leaves the list as it is otherwise.
C5_ProjectsWithoutDuplicates ==
    /\ \A a \in DOMAIN user :
          /\ NoDuplicates(user[a].curated_projects)
          /\ NoDuplicates(user[a].validated_projects)
    /\ (Answered("curate") /\ last.result = "Ok") =>
          LET a == last.parameter.addr
              p == last.parameter.project_id
              before == pre.user[a].curated_projects
          IN  user[a].curated_projects =
                 IF contains(before, p) THEN before ELSE Append(before, p)

\* curate(a, p) succeeds a second time and the list still holds p once.
C5_Witness ==
    /\ Answered("curate")
    /\ last.result = "Ok"
    /\ contains(pre.user[last.parameter.addr].curated_projects,
                last.parameter.project_id)
    /\ Occurrences(user[last.parameter.addr].curated_projects,
                   last.parameter.project_id) = 1

\* ------------------------------------------------------------------ C6
\* C6: whenever a call makes some record's curated_projects longer, that
\* record had is_curator = true and its account was in curator_list in
\* the state before the call; symmetrically for validated_projects,
\* is_validator and validator_list.
C6_GrowthOnlyWithRole ==
    \A a \in DOMAIN user :
        LET cp0 == IF has_key(pre.user, a) THEN pre.user[a].curated_projects ELSE <<>>
            vp0 == IF has_key(pre.user, a) THEN pre.user[a].validated_projects ELSE <<>>
        IN  /\ Len(user[a].curated_projects) > Len(cp0)
                => (/\ has_key(pre.user, a)
                    /\ pre.user[a].is_curator
                    /\ contains(pre.curator_list, a))
            /\ Len(user[a].validated_projects) > Len(vp0)
                => (/\ has_key(pre.user, a)
                    /\ pre.user[a].is_validator
                    /\ contains(pre.validator_list, a))

\* A validated_projects list grew by a second project.
C6_Witness ==
    \E a \in DOMAIN user :
        /\ has_key(pre.user, a)
        /\ Len(pre.user[a].validated_projects) = 1
        /\ Len(user[a].validated_projects) = 2

\* ------------------------------------------------------------------ C7
\* C7: add_curator is idempotent: after a successful add_curator(a), a has
\* is_curator = true and occurs exactly once in curator_list; a further
\* add_curator(a) by the admin leaves the state exactly as the first call
\* left it; the same for add_validator.
C7_AddIdempotent ==
    /\ (Answered("add_curator") /\ last.result = "Ok") =>
          /\ user[last.parameter.addr].is_curator
          /\ Occurrences(curator_list, last.parameter.addr) = 1
          /\ \A ctx \in AdminContexts(last.parameter.addr) :
                /\ contract_add_curator(ctx, State).result = "Ok"
                /\ contract_add_curator(ctx, State).state = State
    /\ (Answered("add_validator") /\ last.result = "Ok") =>
          /\ user[last.parameter.addr].is_validator
          /\ Occurrences(validator_list, last.parameter.addr) = 1
          /\ \A ctx \in AdminContexts(last.parameter.addr) :
                /\ contract_add_validator(ctx, State).result = "Ok"
                /\ contract_add_validator(ctx, State).state = State
    /\ (Answered("add_curator") /\ last.result = "Ok"
          /\ contains(pre.curator_list, last.parameter.addr)) => State = pre
    /\ (Answered("add_validator") /\ last.result = "Ok"
          /\ contains(pre.validator_list, last.parameter.addr)) => State = pre

\* add_validator(a) answered for an account that was a validator already,
\* with another validator listed before it.
C7_Witness ==
    /\ Answered("add_validator")
    /\ last.result = "Ok"
    /\ Len(pre.validator_list) = 2
    /\ pre.validator_list[2] = last.parameter.addr
    /\ State = pre

\* ------------------------------------------------------------------ C8
\* C8: remove_curator(a) / remove_validator(a) originated by the admin
\* never fails; when a has no record or is not in the corresponding list
\* the whole state is unchanged (no record is created), so a second
\* removal right after a first one changes nothing.
C8_RemoveNeverFails ==
    /\ (Answered("remove_curator") /\ Decoded /\ last.invoker = pre.admin) =>
          /\ last.result = "Ok"
          /\ (~has_key(pre.user, last.parameter.addr)
                \/ ~contains(pre.curator_list, last.parameter.addr)) => State = pre
          /\ \A ctx \in AdminContexts(last.parameter.addr) :
                /\ contract_remove_curator(ctx, State).result = "Ok"
                /\ contract_remove_curator(ctx, State).state = State
    /\ (Answered("remove_validator") /\ Decoded /\ last.invoker = pre.admin) =>
          /\ last.result = "Ok"
          /\ (~has_key(pre.user, last.parameter.addr)
                \/ ~contains(pre.validator_list, last.parameter.addr)) => State = pre
          /\ \A ctx \in AdminContexts(last.parameter.addr) :
                /\ contract_remove_validator(ctx, State).result = "Ok"
                /\ contract_remove_validator(ctx, State).state = State

\* remove_curator for an account that never had a record, while another
\* account has one.
C8_Witness ==
    /\ Answered("remove_curator")
    /\ last.result = "Ok"
    /\ ~has_key(pre.user, last.parameter.addr)
    /\ ~has_key(user, last.parameter.addr)
    /\ DOMAIN user # {}

\* ------------------------------------------------------------------ C9
\* C9: after a successful remove_curator(a) on an account with a record,
\* the record still exists, has is_curator = false, and its
\* curated_projects and validated_projects are what they were before;
\* symmetrically for remove_validator.
C9_RevocationKeepsHistory ==
    /\ (Answered("remove_curator") /\ last.result = "Ok"
          /\ has_key(pre.user, last.parameter.addr)) =>
          LET a == last.parameter.addr
          IN  /\ has_key(user, a)
              /\ ~user[a].is_curator
              /\ user[a].curated_projects = pre.user[a].curated_projects
              /\ user[a].validated_projects = pre.user[a].validated_projects
    /\ (Answered("remove_validator") /\ last.result = "Ok"
          /\ has_key(pre.user, last.parameter.addr)) =>
          LET a == last.parameter.addr
          IN  /\ has_key(user, a)
              /\ ~user[a].is_validator
              /\ user[a].curated_projects = pre.user[a].curated_projects
              /\ user[a].validated_projects = pre.user[a].validated_projects

\* A curator with a recorded project loses the role.
C9_Witness ==
    /\ Answered("remove_curator")
    /\ last.result = "Ok"
    /\ has_key(pre.user, last.parameter.addr)
    /\ pre.user[last.parameter.addr].is_curator
    /\ pre.user[last.parameter.addr].curated_projects # <<>>
    /\ user[last.parameter.addr].curated_projects # <<>>

\* ----------------------------------------------------------------- C10
\* C10: transfer_admin(new) by a non-admin fails with InvalidCaller and
\* leaves admin unchanged; by the current admin it sets admin = new; admin
\* changes in no other way, and every admin-gated call succeeds exactly
\* when its invoker is the admin of that moment, so an old admin is
\* rejected until admin is transferred back and the new admin is accepted.
C10_TransferAdmin ==
    /\ (Answered("transfer_admin") /\ Decoded /\ last.invoker # pre.admin) =>
          (last.result = "InvalidCaller" /\ admin = pre.admin)
    /\ (Answered("transfer_admin") /\ Decoded /\ last.invoker = pre.admin) =>
          (last.result = "Ok" /\ admin = last.parameter.admin)
    /\ admin # pre.admin =>
          (Answered("transfer_admin") /\ last.result = "Ok"
             /\ last.invoker = pre.admin)
    /\ (last.op \in AdminGated /\ Decoded) =>
          /\ last.invoker = pre.admin => last.result = "Ok"
          /\ last.invoker # pre.admin => last.result = "InvalidCaller"

\* After a transfer away from the creator, add_curator originated by the
\* creator is rejected.
C10_Witness ==
    /\ Answered("add_curator")
    /\ pre.admin # owner
    /\ last.invoker = owner
    /\ last.result = "InvalidCaller"
    /\ changes >= 2

\* ----------------------------------------------------------------- C11
\* The state after init by X, add_project_contract(P) by X and
\* add_curator(U) by X, with `projects` curated by U.
ScenarioState(X, P, U, projects) ==
    [admin |-> X,
     project_contract_addr |-> P,
     user |-> [a \in {U} |-> UserState(TRUE, FALSE, projects, <<>>)],
     curator_list |-> <<U>>,
     validator_list |-> <<>>]

\* The state after init by X and add_project_contract(P) by X.
ScenarioStart(X, P) ==
    [admin |-> X,
     project_contract_addr |-> P,
     user |-> EmptyMap,
     curator_list |-> <<>>,
     validator_list |-> <<>>]

\* C11: end-to-end scenario.  After init by X, add_project_contract(P) by
\* X and add_curator(U) by X, curate(U, p) sent by contract P succeeds and
\* view_user(U) returns {true, false, [p], []}; curate(U, p) sent by any
\* address other than contract P then fails with InvalidCaller and leaves
\* the state, so U's record, unchanged.
C11_EndToEnd ==
    \A P \in ContractAddresses, U \in Accounts, p \in ProjectIds :
        /\ (pre = ScenarioStart(owner, <<0, 0>>)
              /\ Answered("add_project_contract") /\ last.invoker = owner
              /\ last.parameter = [project_contract_addr |-> P])
            => (last.result = "Ok" /\ State = ScenarioStart(owner, P))
        /\ (pre = ScenarioStart(owner, P)
              /\ Answered("add_curator") /\ last.invoker = owner
              /\ last.parameter = [addr |-> U])
            => (last.result = "Ok" /\ State = ScenarioState(owner, P, U, <<>>))
        /\ (pre = ScenarioState(owner, P, U, <<>>)
              /\ Answered("curate") /\ last.sender = Contract(P)
              /\ last.parameter = [addr |-> U, project_id |-> p])
            => (last.result = "Ok" /\ State = ScenarioState(owner, P, U, <<p>>))
        /\ (pre = ScenarioState(owner, P, U, <<p>>)
              /\ Answered("view_user") /\ last.parameter = [addr |-> U])
            => (last.result = "Ok" /\ last.ret = UserState(TRUE, FALSE, <<p>>, <<>>))
        /\ (pre = ScenarioState(owner, P, U, <<p>>)
              /\ Answered("curate") /\ last.sender # Contract(P)
              /\ last.parameter = [addr |-> U, project_id |-> p])
            => (last.result = "InvalidCaller" /\ State = pre)

\* The last step of the scenario: after contract <<1, 2>> recorded the
\* project, the same curate sent by U itself is rejected.
C11_Witness ==
    \E U \in Accounts, p \in ProjectIds :
        /\ pre = ScenarioState(owner, <<1, 2>>, U, <<p>>)
        /\ Answered("curate")
        /\ last.sender = Account(U)
        /\ last.parameter = [addr |-> U, project_id |-> p]
        /\ last.result = "InvalidCaller"
        /\ user[U] = UserState(TRUE, FALSE, <<p>>, <<>>)

\* ----------------------------------------------------------------- C12
\* C12: a failed call changes nothing: whatever the entrypoint and the
\* failure (InvalidCaller, InvalidArgument, undecodable parameter, the
\* rejection of upgrade, a failed host.upgrade or a failed migration
\* call), the state (admin, project_contract_addr, user, curator_list,
\* validator_list) after the call equals the state before it.
C12_FailedCallChangesNothing ==
    (~Idle /\ last.result # "Ok") => State = pre

\* An upgrade whose migration call failed after the module was replaced,
\* in a state that holds a record.
C12_Witness ==
    /\ Answered("upgrade")
    /\ last.result = "CallContractError"
    /\ Len(last.effects) = 2
    /\ DOMAIN user # {}
    /\ State = pre

\* ----------------------------------------------------------------- C13
\* C13: upgrade sent by an address that is not the owner account fails
\* with InvalidCaller, and neither host.upgrade nor invoke_contract_raw is
\* performed.
C13_NonOwnerUpgradeInvalidCaller ==
    (Answered("upgrade") /\ last.sender # Account(owner))
        => (last.result = "InvalidCaller" /\ last.effects = <<>>)

\* ----------------------------------------------------------------- C14
\* Positions of last.effects at which `primitive` was performed.
PerformedAt(primitive) ==
    {i \in 1..Len(last.effects) : last.effects[i].primitive = primitive}

\* C14: in an upgrade sent by the owner with a decodable parameter,
\* host.upgrade(module) is performed first; invoke_contract_raw on the
\* instance itself is performed exactly once, after host.upgrade has
\* succeeded, if and only if a migration call was supplied; it is never
\* performed when host.upgrade fails or no migration was supplied; and
\* upgrade succeeds exactly when every primitive it performed succeeded.
C14_UpgradeSteps ==
    (Answered("upgrade") /\ last.sender = Account(owner) /\ Decoded) =>
        /\ PerformedAt("upgrade") = {1}
        /\ PerformedAt("invoke_contract_raw") =
              IF last.parameter.migrate # None /\ last.effects[1].ok THEN {2} ELSE {}
        /\ Len(last.effects) <= 2
        /\ last.result = "Ok" <=> \A i \in 1..Len(last.effects) : last.effects[i].ok

\* The module was replaced, the migration call was made and failed, and
\* upgrade failed with it.
C14_Witness ==
    /\ Answered("upgrade")
    /\ last.parameter # Malformed
    /\ last.parameter.migrate # None
    /\ last.effects = <<Performed("upgrade", TRUE),
                        Performed("invoke_contract_raw", FALSE)>>
    /\ last.result # "Ok"

\* ----------------------------------------------------------------- C15
\* C15 as stated: no operation of the instance starts while another one
\* has started and has not completed, i.e. no call in flight enters the
\* instance again.
C15_NeverReentered ==
    ~Idle => PerformedAt("invoke_contract_raw") = {}

\* C15 amended: the only operation of the instance that starts while
\* another is in flight is the migration call of upgrade: it is made by
\* an upgrade sent by the owner that carries a migration, at most once,
\* after host.upgrade succeeded; no other entrypoint calls a host
\* primitive, so no other entrypoint enters the instance again.
C15_OnlyUpgradeReenters ==
    ~Idle =>
        /\ last.op # "upgrade" => last.effects = <<>>
        /\ Cardinality(PerformedAt("invoke_contract_raw")) <= 1
        /\ PerformedAt("invoke_contract_raw") # {} =>
              /\ Answered("upgrade")
              /\ last.sender = Account(owner)
              /\ last.parameter.migrate # None
              /\ last.effects[1] = Performed("upgrade", TRUE)

\* An upgrade in whose course the instance was entered again, and which
\* succeeded, while the owner is no longer the admin.
C15_Witness ==
    /\ Answered("upgrade")
    /\ last.result = "Ok"
    /\ PerformedAt("invoke_contract_raw") = {2}
    /\ admin # owner

\* ----------------------------------------------------------------- C16
\* C16: view_user(addr) with a decodable parameter succeeds for every
\* invoker and sender; it returns addr's stored record when there is one
\* and {false, false, [], []} when there is none, as for every account
\* right after init.
C16_ViewUser ==
    (Answered("view_user") /\ Decoded) =>
        /\ last.result = "Ok"
        /\ has_key(pre.user, last.parameter.addr)
              => last.ret = pre.user[last.parameter.addr]
        /\ ~has_key(pre.user, last.parameter.addr)
              => last.ret = [is_curator |-> FALSE, is_validator |-> FALSE,
                             curated_projects |-> <<>>, validated_projects |-> <<>>]

\* view_user called through a contract, originated by a non-admin, for an
\* account without record while another account has one.
C16_Witness ==
    /\ Answered("view_user")
    /\ last.invoker # pre.admin
    /\ last.sender = Contract(<<1, 2>>)
    /\ last.result = "Ok"
    /\ ~has_key(user, last.parameter.addr)
    /\ DOMAIN user # {}
    /\ ~last.ret.is_curator
    /\ last.ret.curated_projects = <<>>

\* ----------------------------------------------------------------- C17
\* Sequence v is an initial segment of sequence w.
IsPrefix(v, w) == Len(v) <= Len(w) /\ \A i \in 1..Len(v) : v[i] = w[i]

\* C17: records are never deleted and project lists are append-only:
\* over every call, each account that had a record still has one (also
\* when both flags are false), and the record's curated_projects and
\* validated_projects before the call are initial segments of what they
\* are after it.
C17_RecordsKeptListsAppendOnly ==
    \A a \in DOMAIN pre.user :
        /\ has_key(user, a)
        /\ IsPrefix(pre.user[a].curated_projects, user[a].curated_projects)
        /\ IsPrefix(pre.user[a].validated_projects, user[a].validated_projects)

\* A record that has just lost its last role and is still there, with
\* the project recorded under that role.
C17_Witness ==
    /\ Answered("remove_validator")
    /\ last.result = "Ok"
    /\ has_key(pre.user, last.parameter.addr)
    /\ pre.user[last.parameter.addr].is_validator
    /\ has_key(user, last.parameter.addr)
    /\ ~user[last.parameter.addr].is_curator
    /\ ~user[last.parameter.addr].is_validator
    /\ Len(user[last.parameter.addr].validated_projects) = 1

\* ----------------------------------------------------------------- C18
\* C18: admin changes only in a successful transfer_admin originated by
\* the account that was admin before the call, and project_contract_addr
\* changes only in a successful add_project_contract originated by the
\* admin; no role change, curate, validate, view or upgrade and no failed
\* call changes either field.
C18_RootFieldsChangeOnlyByAdmin ==
    /\ admin # pre.admin =>
          /\ Answered("transfer_admin")
          /\ last.result = "Ok"
          /\ last.invoker = pre.admin
          /\ admin = last.parameter.admin
    /\ project_contract_addr # pre.project_contract_addr =>
          /\ Answered("add_project_contract")
          /\ last.result = "Ok"
          /\ last.invoker = pre.admin
          /\ project_contract_addr = last.parameter.project_contract_addr

\* The project contract address is replaced by an admin that is not the
\* creator of the instance.
C18_Witness ==
    /\ Answered("add_project_contract")
    /\ project_contract_addr # pre.project_contract_addr
    /\ pre.admin # owner
    /\ last.invoker = pre.admin

\* ----------------------------------------------------------------- C19
\* The decodable parameters of an admin-gated entrypoint.
AdminGatedParams(op) ==
    CASE op = "transfer_admin" -> TransferAdminParams
      [] op = "add_project_contract" -> [project_contract_addr : ContractAddresses]
      [] op = "view_admin" -> {NoParameter}
      [] OTHER -> AddrParams

\* What an admin-gated entrypoint answers to ctx in the current state.
AdminGatedOutcome(op, ctx) ==
    CASE op = "transfer_admin" -> contract_transfer_admin(ctx, State)
      [] op = "add_project_contract" -> contract_add_project_contract(ctx, State)
      [] op = "add_curator" -> contract_add_curator(ctx, State)
      [] op = "remove_curator" -> contract_remove_curator(ctx, State)
      [] op = "add_validator" -> contract_add_validator(ctx, State)
      [] op = "remove_validator" -> contract_remove_validator(ctx, State)
      [] op = "view_admin" -> contract_view_admin(ctx, State)

\* C19: the authorization of an admin-gated entrypoint depends on the
\* invoker only: in the same state, with the same parameter and the same
\* invoker, any two senders (account or contract) get the same outcome;
\* a call originated by the admin succeeds when it arrives through a
\* contract, and a call not originated by the admin fails with
\* InvalidCaller also when its sender is the registered project contract.
C19_AdminGateByInvokerOnly ==
    /\ Idle =>
          \A op \in AdminGated :
              \A ctx \in Contexts(AdminGatedParams(op)) :
                  \A snd \in Addresses :
                      AdminGatedOutcome(op, [ctx EXCEPT !.sender = snd])
                          = AdminGatedOutcome(op, ctx)
    /\ (last.op \in AdminGated /\ Decoded) =>
          /\ (last.invoker = pre.admin /\ last.sender \in {Contract(c) : c \in ContractAddresses})
                => last.result = "Ok"
          /\ (last.invoker # pre.admin /\ last.sender = Contract(pre.project_contract_addr))
                => last.result = "InvalidCaller"

\* A role grant originated by the admin arrives through a contract that
\* is not the registered project contract, and succeeds.
C19_Witness ==
    /\ Answered("add_validator")
    /\ last.invoker = pre.admin
    /\ last.sender = Contract(<<1, 2>>)
    /\ pre.project_contract_addr = <<0, 0>>
    /\ last.result = "Ok"
    /\ contains(validator_list, last.parameter.addr)

\* ----------------------------------------------------------------- C20
\* C20: the authorization of curate and validate depends on the sender
\* only: in the same state, with the same parameter and the same sender,
\* any two invokers get the same outcome; a call whose sender is not the
\* registered project contract fails with InvalidCaller also when the
\* admin originates it or sends it directly, so a call sent by an account
\* never succeeds and never changes the state.
C20_ProjectGateBySenderOnly ==
    /\ Idle =>
          \A ctx \in Contexts(ProjectParams) :
              \A inv \in Accounts :
                  /\ contract_curate([ctx EXCEPT !.invoker = inv], State)
                        = contract_curate(ctx, State)
                  /\ contract_validate([ctx EXCEPT !.invoker = inv], State)
                        = contract_validate(ctx, State)
    /\ (last.op \in {"curate", "validate"} /\ Decoded) =>
          /\ (last.sender # Contract(pre.project_contract_addr)
                /\ (last.invoker = pre.admin \/ last.sender = Account(pre.admin)))
                => last.result = "InvalidCaller"
          /\ last.sender \in {Account(a) : a \in Accounts}
                => (last.result = "InvalidCaller" /\ State = pre)

\* The admin itself sends validate for an account that is a validator,
\* and is rejected.
C20_Witness ==
    /\ Answered("validate")
    /\ last.invoker = pre.admin
    /\ last.sender = Account(pre.admin)
    /\ Decoded
    /\ has_key(pre.user, last.parameter.addr)
    /\ pre.user[last.parameter.addr].is_validator
    /\ last.result = "InvalidCaller"

\* ----------------------------------------------------------------- C21
\* The entrypoints that change the state and are gated by the admin.
AdminUpdates ==
    {"transfer_admin", "add_project_contract", "add_curator", "add_validator",
     "remove_curator", "remove_validator"}

\* C21: with a decodable parameter, transfer_admin, add_project_contract,
\* add_curator, add_validator, remove_curator and remove_validator
\* originated by the current admin succeed in every reachable state, and
\* their only failure is InvalidCaller; curate and validate sent by the
\* registered project contract either succeed or fail with
\* InvalidArgument.
C21_OnlyDeclaredFailures ==
    /\ Idle =>
          \A op \in AdminUpdates :
              \A ctx \in Contexts(AdminGatedParams(op)) :
                  /\ ctx.invoker = admin => AdminGatedOutcome(op, ctx).result = "Ok"
                  /\ AdminGatedOutcome(op, ctx).result \in {"Ok", "InvalidCaller"}
    /\ (last.op \in AdminUpdates /\ Decoded) =>
          /\ last.invoker = pre.admin => last.result = "Ok"
          /\ last.result \in {"Ok", "InvalidCaller"}
    /\ (last.op \in {"curate", "validate"} /\ Decoded
          /\ last.sender = Contract(pre.project_contract_addr)) =>
          last.result \in {"Ok", "InvalidArgument"}

\* The admin, who is not the creator, grants the curator role to an
\* account that is a curator and a validator already, and succeeds.
C21_Witness ==
    /\ Answered("add_curator")
    /\ Decoded
    /\ last.invoker = pre.admin
    /\ pre.admin # owner
    /\ has_key(pre.user, last.parameter.addr)
    /\ pre.user[last.parameter.addr].is_curator
    /\ pre.user[last.parameter.addr].is_validator
    /\ last.result = "Ok"

\* ----------------------------------------------------------------- C22
\* C22: init by any account X yields the state with admin = X,
\* project_contract_addr = (0, 0), an empty user map, an empty curator
\* list and an empty validator list; this is the state of the instance
\* until the first state-changing call, with X the creator.
C22_InitState ==
    /\ \A X \in Accounts :
          /\ contract_init(X).admin = X
          /\ contract_init(X).project_contract_addr = <<0, 0>>
          /\ DOMAIN contract_init(X).user = {}
          /\ contract_init(X).curator_list = <<>>
          /\ contract_init(X).validator_list = <<>>
    /\ changes = 0 =>
          /\ admin = owner
          /\ project_contract_addr = <<0, 0>>
          /\ DOMAIN user = {}
          /\ curator_list = <<>>
          /\ validator_list = <<>>

\* Right after init by acc1, view_admin originated by acc1 shows the
\* initial root.
C22_Witness ==
    /\ changes = 0
    /\ owner = "acc1"
    /\ Answered("view_admin")
    /\ last.invoker = "acc1"
    /\ last.result = "Ok"
    /\ last.ret.admin = "acc1"
    /\ last.ret.project_contract_addr = <<0, 0>>
    /\ user = EmptyMap

\* ----------------------------------------------------------------- C23
\* The records of all accounts other than a are the same before and after
\* the call, and no account other than a gained or lost a record.
OthersUnchanged(a) ==
    /\ (DOMAIN user) \ {a} = (DOMAIN pre.user) \ {a}
    /\ \A b \in (DOMAIN pre.user) \ {a} : user[b] = pre.user[b]

\* C23: a successful add_curator(addr) sets only is_curator to true when
\* addr has a record (is_validator and both project lists stay as they
\* were) and inserts {true, false, [], []} when addr has none; the
\* records of all other accounts are unchanged.  Symmetrically,
\* add_validator sets only is_validator or inserts {false, true, [], []}.
C23_AddSetsOnlyItsFlag ==
    /\ (Answered("add_curator") /\ last.result = "Ok") =>
          LET a == last.parameter.addr
          IN  /\ has_key(user, a)
              /\ has_key(pre.user, a) =>
                    /\ user[a].is_curator
                    /\ user[a].is_validator = pre.user[a].is_validator
                    /\ user[a].curated_projects = pre.user[a].curated_projects
                    /\ user[a].validated_projects = pre.user[a].validated_projects
              /\ ~has_key(pre.user, a) =>
                    user[a] = [is_curator |-> TRUE, is_validator |-> FALSE,
                               curated_projects |-> <<>>, validated_projects |-> <<>>]
              /\ OthersUnchanged(a)
    /\ (Answered("add_validator") /\ last.result = "Ok") =>
          LET a == last.parameter.addr
          IN  /\ has_key(user, a)
              /\ has_key(pre.user, a) =>
                    /\ user[a].is_validator
                    /\ user[a].is_curator = pre.user[a].is_curator
                    /\ user[a].curated_projects = pre.user[a].curated_projects
                    /\ user[a].validated_projects = pre.user[a].validated_projects
              /\ ~has_key(pre.user, a) =>
                    user[a] = [is_curator |-> FALSE, is_validator |-> TRUE,
                               curated_projects |-> <<>>, validated_projects |-> <<>>]
              /\ OthersUnchanged(a)

\* A curator with a recorded project is made a validator as well and
\* keeps its curator flag and its project.
C23_Witness ==
    /\ Answered("add_validator")
    /\ last.result = "Ok"
    /\ has_key(pre.user, last.parameter.addr)
    /\ pre.user[last.parameter.addr].is_curator
    /\ ~pre.user[last.parameter.addr].is_validator
    /\ Len(pre.user[last.parameter.addr].curated_projects) = 1
    /\ user[last.parameter.addr].is_validator
    /\ Len(user[last.parameter.addr].curated_projects) = 1

\* ----------------------------------------------------------------- C24
\* C24: a successful add_project_contract(a) sets project_contract_addr
\* to a and leaves admin, the user map, curator_list and validator_list
\* unchanged; no address is refused: in every reachable state the admin
\* can set every address, the sentinel (0, 0) and the current value
\* included.
C24_SetProjectContract ==
    /\ (Answered("add_project_contract") /\ last.result = "Ok") =>
          /\ project_contract_addr = last.parameter.project_contract_addr
          /\ admin = pre.admin
          /\ user = pre.user
          /\ curator_list = pre.curator_list
          /\ validator_list = pre.validator_list
    /\ Idle =>
          \A ctx \in Contexts([project_contract_addr : ContractAddresses]) :
              ctx.invoker = admin =>
                  /\ contract_add_project_contract(ctx, State).result = "Ok"
                  /\ contract_add_project_contract(ctx, State).state =
                        [State EXCEPT !.project_contract_addr =
                                          ctx.parameter.project_contract_addr]

\* The address is set back to the sentinel while a curator is
\* registered.
C24_Witness ==
    /\ Answered("add_project_contract")
    /\ last.result = "Ok"
    /\ pre.project_contract_addr = <<1, 2>>
    /\ project_contract_addr = <<0, 0>>
    /\ Len(curator_list) = 1
    /\ DOMAIN user # {}

\* ----------------------------------------------------------------- C25
\* C25: view_admin originated by the current admin succeeds and returns
\* exactly the admin, the project_contract_addr, the curator_list and the
\* validator_list (same elements, same order) of the state in which it
\* is called, and leaves that state as it is.
C25_ViewAdminSnapshot ==
    (Answered("view_admin") /\ last.invoker = pre.admin) =>
        /\ last.result = "Ok"
        /\ last.ret.admin = pre.admin
        /\ last.ret.project_contract_addr = pre.project_contract_addr
        /\ last.ret.curator_list = pre.curator_list
        /\ last.ret.validator_list = pre.validator_list
        /\ DOMAIN last.ret =
              {"admin", "project_contract_addr", "curator_list", "validator_list"}
        /\ State = pre

\* view_admin answered with two curators, listed in the order in which
\* they were granted the role, and one validator.
C25_Witness ==
    /\ Answered("view_admin")
    /\ last.result = "Ok"
    /\ last.ret.curator_list = <<"acc1", "acc0">>
    /\ Len(last.ret.validator_list) = 1
    /\ curator_list = <<"acc1", "acc0">>

\* ----------------------------------------------------------------- C26
\* C26: view_users succeeds for every invoker and sender and returns a
\* sequence of (account, record) pairs in which every account that has a
\* user record appears exactly once, paired with its current record, and
\* no other account appears; the state is left as it is.
C26_ViewUsers ==
    Answered("view_users") =>
        /\ last.result = "Ok"
        /\ \A a \in Accounts :
              LET at == {i \in 1..Len(last.ret) : last.ret[i][1] = a}
              IN  /\ has_key(pre.user, a) =>
                        /\ Cardinality(at) = 1
                        /\ \A i \in at : last.ret[i][2] = pre.user[a]
                  /\ ~has_key(pre.user, a) => at = {}
        /\ \A i \in 1..Len(last.ret) : last.ret[i][1] \in DOMAIN pre.user
        /\ State = pre

\* view_users called through a contract by a non-admin while two
\* accounts have a record, one of them without any role.
C26_Witness ==
    /\ Answered("view_users")
    /\ last.invoker # pre.admin
    /\ last.sender = Contract(<<1, 2>>)
    /\ last.result = "Ok"
    /\ Len(last.ret) = 2
    /\ \E i \in 1..2 : ~last.ret[i][2].is_curator /\ ~last.ret[i][2].is_validator

\* ----------------------------------------------------------------- C27
\* C27: transfer_admin does not validate its argument.  Originated by the
\* admin, transfer_admin(admin) succeeds and leaves the whole state
\* unchanged, and transfer_admin(x) for any other address x, the address
\* of no account included, succeeds and makes x the admin, leaving the
\* other fields as they were.
C27_TransferUnvalidated ==
    /\ (Answered("transfer_admin") /\ Decoded /\ last.invoker = pre.admin) =>
          /\ last.result = "Ok"
          /\ admin = last.parameter.admin
          /\ State = [pre EXCEPT !.admin = last.parameter.admin]
          /\ last.parameter.admin = pre.admin => State = pre
    /\ Idle =>
          \A ctx \in Contexts(TransferAdminParams) :
              ctx.invoker = admin =>
                  /\ contract_transfer_admin(ctx, State).result = "Ok"
                  /\ contract_transfer_admin(ctx, State).state.admin = ctx.parameter.admin

\* The admin role is handed to the address of no account while a user
\* record exists.
C27_Witness ==
    /\ Answered("transfer_admin")
    /\ last.result = "Ok"
    /\ pre.admin \in Accounts
    /\ last.parameter.admin = NullAccount
    /\ admin = NullAccount
    /\ DOMAIN user # {}

\* ----------------------------------------------------------------- C28
\* The user record of account a in map m as view_user reports it.
RecordOf(m, a) ==
    IF has_key(m, a) THEN m[a] ELSE UserState(FALSE, FALSE, <<>>, <<>>)

\* C28: the two roles are independent.  add_curator and remove_curator
\* change no record's is_validator or validated_projects, nor
\* validator_list, admin or project_contract_addr, nor the record of an
\* account other than their argument; add_validator and remove_validator
\* likewise change no is_curator or curated_projects, nor curator_list,
\* admin or project_contract_addr, nor another account's record.  (That
\* an account can hold both roles and be in both lists at once is what
\* C28_Witness reaches.)
C28_RolesIndependent ==
    /\ last.op \in {"add_curator", "remove_curator"} =>
          /\ validator_list = pre.validator_list
          /\ admin = pre.admin
          /\ project_contract_addr = pre.project_contract_addr
          /\ \A b \in Accounts :
                /\ RecordOf(user, b).is_validator = RecordOf(pre.user, b).is_validator
                /\ RecordOf(user, b).validated_projects
                      = RecordOf(pre.user, b).validated_projects
          /\ Decoded => OthersUnchanged(last.parameter.addr)
          /\ ~Decoded => user = pre.user
    /\ last.op \in {"add_validator", "remove_validator"} =>
          /\ curator_list = pre.curator_list
          /\ admin = pre.admin
          /\ project_contract_addr = pre.project_contract_addr
          /\ \A b \in Accounts :
                /\ RecordOf(user, b).is_curator = RecordOf(pre.user, b).is_curator
                /\ RecordOf(user, b).curated_projects
                      = RecordOf(pre.user, b).curated_projects
          /\ Decoded => OthersUnchanged(last.parameter.addr)
          /\ ~Decoded => user = pre.user

\* An account that holds both roles and is in both lists loses the
\* curator role and is still a validator, in validator_list.
C28_Witness ==
    /\ Answered("remove_curator")
    /\ last.result = "Ok"
    /\ has_key(pre.user, last.parameter.addr)
    /\ pre.user[last.parameter.addr].is_curator
    /\ pre.user[last.parameter.addr].is_validator
    /\ contains(pre.curator_list, last.parameter.addr)
    /\ contains(pre.validator_list, last.parameter.addr)
    /\ ~user[last.parameter.addr].is_curator
    /\ user[last.parameter.addr].is_validator
    /\ contains(validator_list, last.parameter.addr)

\* ----------------------------------------------------------------- C29
\* C29: a successful curate(a, p) changes nothing except a's
\* curated_projects: admin, project_contract_addr, curator_list,
\* validator_list, a's is_curator, is_validator and validated_projects,
\* the set of accounts that have a record, and the record of every other
\* account are as before; a successful validate(a, p) likewise changes
\* only a's validated_projects.  Hence no curate or validate, and no call
\* sent by the registered project contract that the admin did not
\* originate, grants or revokes a role or creates a record.
C29_RecordingTouchesOneList ==
    /\ (Answered("curate") /\ last.result = "Ok") =>
          LET a == last.parameter.addr
          IN  /\ admin = pre.admin
              /\ project_contract_addr = pre.project_contract_addr
              /\ curator_list = pre.curator_list
              /\ validator_list = pre.validator_list
              /\ DOMAIN user = DOMAIN pre.user
              /\ has_key(pre.user, a)
              /\ user[a].is_curator = pre.user[a].is_curator
              /\ user[a].is_validator = pre.user[a].is_validator
              /\ user[a].validated_projects = pre.user[a].validated_projects
              /\ \A b \in (DOMAIN pre.user) \ {a} : user[b] = pre.user[b]
    /\ (Answered("validate") /\ last.result = "Ok") =>
          LET a == last.parameter.addr
          IN  /\ admin = pre.admin
              /\ project_contract_addr = pre.project_contract_addr
              /\ curator_list = pre.curator_list
              /\ validator_list = pre.validator_list
              /\ DOMAIN user = DOMAIN pre.user
              /\ has_key(pre.user, a)
              /\ user[a].is_curator = pre.user[a].is_curator
              /\ user[a].is_validator = pre.user[a].is_validator
              /\ user[a].curated_projects = pre.user[a].curated_projects
              /\ \A b \in (DOMAIN pre.user) \ {a} : user[b] = pre.user[b]
    /\ (\/ last.op \in {"curate", "validate"}
        \/ (~Idle /\ last.sender = Contract(pre.project_contract_addr)
              /\ last.invoker # pre.admin)) =>
          /\ DOMAIN user = DOMAIN pre.user
          /\ curator_list = pre.curator_list
          /\ validator_list = pre.validator_list
          /\ \A b \in DOMAIN pre.user :
                /\ user[b].is_curator = pre.user[b].is_curator
                /\ user[b].is_validator = pre.user[b].is_validator

\* A first project is recorded for a curator while a second account has
\* a record, which stays as it was.
C29_Witness ==
    /\ Answered("curate")
    /\ last.result = "Ok"
    /\ Cardinality(DOMAIN pre.user) = 2
    /\ pre.user[last.parameter.addr].curated_projects = <<>>
    /\ user[last.parameter.addr].curated_projects = <<last.parameter.project_id>>
    /\ \A b \in (DOMAIN user) \ {last.parameter.addr} : user[b] = pre.user[b]

\* ----------------------------------------------------------------- C30
\* Account a is not a curator in contract state st.
NotCurator(st, a) == ~has_key(st.user, a) \/ ~st.user[a].is_curator

\* The curated projects of account a in contract state st.
CuratedBy(st, a) == RecordOf(st.user, a).curated_projects

\* Handler outcome `out` leaves a without the curator role and with the
\* curated projects it has in the current state.
StaysRevoked(out, a) ==
    /\ NotCurator(out.state, a)
    /\ CuratedBy(out.state, a) = CuratedBy(State, a)

\* C30: after remove_curator(a), a is not a curator, and as long as it is
\* not, every curate(a, p) sent by the registered project contract fails
\* with InvalidArgument and a's curated_projects stay what they were; the
\* only call that ends this is a successful add_curator(a) originated by
\* the admin, which keeps the projects recorded before the revocation; a
\* later successful curate(a, q) with a q not yet recorded appends q
\* after them.
C30_RevokeAndRegrant ==
    /\ (Answered("remove_curator") /\ last.result = "Ok") =>
          /\ NotCurator(State, last.parameter.addr)
          /\ CuratedBy(State, last.parameter.addr) = CuratedBy(pre, last.parameter.addr)
    /\ \A a \in Accounts :
          (~Idle /\ NotCurator(pre, a)) =>
              /\ (Answered("curate") /\ Decoded /\ last.parameter.addr = a
                    /\ last.sender = Contract(pre.project_contract_addr))
                    => last.result = "InvalidArgument"
              /\ CuratedBy(State, a) = CuratedBy(pre, a)
              /\ ~NotCurator(State, a) =>
                    /\ Answered("add_curator")
                    /\ last.result = "Ok"
                    /\ last.parameter.addr = a
                    /\ last.invoker = pre.admin
    /\ \A a \in Accounts :
          (Idle /\ NotCurator(State, a)) =>
              /\ \A op \in AdminGated :
                    \A ctx \in Contexts(AdminGatedParams(op)) :
                        \/ StaysRevoked(AdminGatedOutcome(op, ctx), a)
                        \/ (op = "add_curator" /\ ctx.parameter.addr = a
                              /\ ctx.invoker = admin
                              /\ CuratedBy(AdminGatedOutcome(op, ctx).state, a)
                                    = CuratedBy(State, a))
              /\ \A ctx \in Contexts(ProjectParams) :
                    /\ StaysRevoked(contract_curate(ctx, State), a)
                    /\ StaysRevoked(contract_validate(ctx, State), a)
              /\ \A ctx \in Contexts(UpgradeParams) :
                    \A host \in [upgrade_ok : BOOLEAN, invoke_ok : BOOLEAN] :
                        StaysRevoked(contract_upgrade(ctx, host, State), a)
    /\ (Answered("curate") /\ last.result = "Ok"
          /\ ~contains(CuratedBy(pre, last.parameter.addr), last.parameter.project_id)) =>
          CuratedBy(State, last.parameter.addr)
              = Append(CuratedBy(pre, last.parameter.addr), last.parameter.project_id)
    /\ (Answered("add_curator") /\ last.result = "Ok"
          /\ NotCurator(pre, last.parameter.addr)) =>
          \A ctx \in Contexts(ProjectParams) :
              (/\ ctx.sender = Contract(project_contract_addr)
               /\ ctx.parameter.addr = last.parameter.addr
               /\ ~contains(CuratedBy(pre, ctx.parameter.addr), ctx.parameter.project_id))
              => /\ contract_curate(ctx, State).result = "Ok"
                 /\ CuratedBy(contract_curate(ctx, State).state, ctx.parameter.addr)
                       = Append(CuratedBy(pre, ctx.parameter.addr),
                                ctx.parameter.project_id)

\* The role is granted again to an account that was revoked with P1
\* recorded (a record with is_curator = false and a project arises only
\* from grant, record, revoke): the record is a curator's again and still
\* holds P1.
C30_Witness ==
    \E U \in Accounts :
        /\ Answered("add_curator")
        /\ last.result = "Ok"
        /\ last.parameter = [addr |-> U]
        /\ has_key(pre.user, U)
        /\ pre.user[U] = UserState(FALSE, FALSE, <<"P1">>, <<>>)
        /\ user[U] = UserState(TRUE, FALSE, <<"P1">>, <<>>)
        /\ curator_list = <<U>>
        /\ changes = 4

\* ----------------------------------------------------------------- C31
\* The position of x in sequence v (v holds x once).
IndexOf(v, x) == CHOOSE i \in 1..Len(v) : v[i] = x

\* Sequence w holds exactly the entries of v other than x, in the
\* relative order they have in v.
RemovedKeepingOrder(v, x, w) ==
    /\ {w[i] : i \in 1..Len(w)} = {v[i] : i \in 1..Len(v)} \ {x}
    /\ NoDuplicates(w)
    /\ \A i, j \in 1..Len(w) : i < j => IndexOf(v, w[i]) < IndexOf(v, w[j])

\* C31: the membership lists keep grant order.  A successful add_curator
\* of an account not in curator_list appends it at the end; a successful
\* remove_curator removes the account and keeps the relative order of
\* the remaining entries; so an account that is revoked and granted
\* again is at the end of the list, not at its old position.  The same
\* for add_validator, remove_validator and validator_list.
C31_ListsKeepGrantOrder ==
    /\ (Answered("add_curator") /\ last.result = "Ok"
          /\ ~contains(pre.curator_list, last.parameter.addr)) =>
          curator_list = Append(pre.curator_list, last.parameter.addr)
    /\ (Answered("add_validator") /\ last.result = "Ok"
          /\ ~contains(pre.validator_list, last.parameter.addr)) =>
          validator_list = Append(pre.validator_list, last.parameter.addr)
    /\ (Answered("remove_curator") /\ last.result = "Ok") =>
          /\ RemovedKeepingOrder(pre.curator_list, last.parameter.addr, curator_list)
          /\ \A ctx \in Contexts({last.parameter}) :
                ctx.invoker = admin =>
                    LET again == contract_add_curator(ctx, State).state.curator_list
                    IN  /\ again[Len(again)] = last.parameter.addr
                        /\ Occurrences(again, last.parameter.addr) = 1
                        /\ RemovedKeepingOrder(again, last.parameter.addr, curator_list)
    /\ (Answered("remove_validator") /\ last.result = "Ok") =>
          /\ RemovedKeepingOrder(pre.validator_list, last.parameter.addr, validator_list)
          /\ \A ctx \in Contexts({last.parameter}) :
                ctx.invoker = admin =>
                    LET again == contract_add_validator(ctx, State).state.validator_list
                    IN  /\ again[Len(again)] = last.parameter.addr
                        /\ Occurrences(again, last.parameter.addr) = 1
                        /\ RemovedKeepingOrder(again, last.parameter.addr, validator_list)

\* The first of three curators is revoked: the other two stay, in the
\* order in which they were granted the role.
C31_Witness ==
    /\ Answered("remove_curator")
    /\ last.result = "Ok"
    /\ Len(pre.curator_list) = 3
    /\ last.parameter.addr = pre.curator_list[1]
    /\ curator_list = <<pre.curator_list[2], pre.curator_list[3]>>

\* ----------------------------------------------------------------- C32
\* C32: there is one effective project contract at a time.  A curate or
\* validate with a decodable parameter passes the sender check exactly
\* when its sender is the contract registered at that moment; so right
\* after the admin changed project_contract_addr from P to a different
\* Q, every curate/validate sent by P fails with InvalidCaller and every
\* one sent by Q is authorized (it succeeds or fails with
\* InvalidArgument).
C32_OneProjectContract ==
    /\ (last.op \in {"curate", "validate"} /\ Decoded) =>
          (last.result # "InvalidCaller"
              <=> last.sender = Contract(pre.project_contract_addr))
    /\ (Answered("add_project_contract") /\ last.result = "Ok"
          /\ project_contract_addr # pre.project_contract_addr) =>
          \A ctx \in Contexts(ProjectParams) :
              /\ ctx.sender = Contract(pre.project_contract_addr) =>
                    /\ contract_curate(ctx, State).result = "InvalidCaller"
                    /\ contract_validate(ctx, State).result = "InvalidCaller"
              /\ ctx.sender = Contract(project_contract_addr) =>
                    /\ contract_curate(ctx, State).result \in {"Ok", "InvalidArgument"}
                    /\ contract_validate(ctx, State).result \in {"Ok", "InvalidArgument"}

\* After the registered contract was changed from (0, 0) to (1, 2), a
\* curate sent by contract (0, 0) for an account that is a curator is
\* rejected.
C32_Witness ==
    /\ Answered("curate")
    /\ Decoded
    /\ pre.project_contract_addr = <<1, 2>>
    /\ last.sender = Contract(<<0, 0>>)
    /\ has_key(pre.user, last.parameter.addr)
    /\ pre.user[last.parameter.addr].is_curator
    /\ last.result = "InvalidCaller"
    /\ State = pre

C34_SentinelIsAuthorized ==
    /\ (Idle /\ project_contract_addr = <<0, 0>>) =>
          \A ctx \in Contexts(ProjectParams) :
              ctx.sender = Contract(<<0, 0>>) =>
                  LET a == ctx.parameter.addr
                      c == contract_curate(ctx, State)
                      v == contract_validate(ctx, State)
                  IN  /\ c.result # "InvalidCaller"
                      /\ v.result # "InvalidCaller"
                      /\ (has_key(user, a) /\ user[a].is_curator) =>
                            /\ c.result = "Ok"
                            /\ contains(c.state.user[a].curated_projects,
                                        ctx.parameter.project_id)
                      /\ (has_key(user, a) /\ user[a].is_validator) =>
                            /\ v.result = "Ok"
                            /\ contains(v.state.user[a].validated_projects,
                                        ctx.parameter.project_id)
    /\ (last.op \in {"curate", "validate"} /\ Decoded
          /\ pre.project_contract_addr = <<0, 0>>
          /\ last.sender = Contract(<<0, 0>>)) =>
          last.result \in {"Ok", "InvalidArgument"}

\* The second state change of an instance: a validator was registered and
\* now, with no project contract ever registered, a validate sent by
\* contract (0, 0) records a project.
C34_Witness ==
    /\ Answered("validate")
    /\ last.result = "Ok"
    /\ changes = 2
    /\ State # pre
    /\ pre.project_contract_addr = <<0, 0>>
    /\ last.sender = Contract(<<0, 0>>)
    /\ user[last.parameter.addr].validated_projects = <<last.parameter.project_id>>

\* ----------------------------------------------------------------- C35
\* The entrypoints gated by the admin or by the project contract that
\* take a parameter.
GatedWithParameter ==
    {"transfer_admin", "add_project_contract", "add_curator", "remove_curator",
     "add_validator", "remove_validator", "curate", "validate"}

\* C35: order of checks.  In transfer_admin, add_project_contract,
\* add_curator, remove_curator, add_validator, remove_validator, curate
\* and validate the parameter is decoded before the caller is checked:
\* an undecodable parameter gives the parse error, also from a caller
\* that is not authorized.  In upgrade the owner check comes first: a
\* sender other than the owner gets the rejection also with an
\* undecodable parameter, and the owner gets the parse error.  In curate
\* and validate the sender is checked before the target: a wrong sender
\* gets InvalidCaller whatever the target, and the right sender gets
\* InvalidArgument for a missing record and for a record without the
\* role.
C35_OrderOfChecks ==
    /\ (last.op \in GatedWithParameter /\ ~Decoded) =>
          last.result = "ParseParamsError"
    /\ (Answered("upgrade") /\ last.sender # Account(owner)) =>
          last.result = "Reject"
    /\ (Answered("upgrade") /\ last.sender = Account(owner) /\ ~Decoded) =>
          (last.result = "ParseError" /\ last.effects = <<>>)
    /\ (last.op \in {"curate", "validate"} /\ Decoded) =>
          LET a == last.parameter.addr
              role == IF ~has_key(pre.user, a) THEN FALSE
                      ELSE IF Answered("curate") THEN pre.user[a].is_curator
                      ELSE pre.user[a].is_validator
          IN  /\ last.sender # Contract(pre.project_contract_addr)
                    => last.result = "InvalidCaller"
              /\ (last.sender = Contract(pre.project_contract_addr)
                    /\ ~has_key(pre.user, a)) => last.result = "InvalidArgument"
              /\ (last.sender = Contract(pre.project_contract_addr)
                    /\ has_key(pre.user, a) /\ ~role) => last.result = "InvalidArgument"
              /\ (last.sender = Contract(pre.project_contract_addr) /\ role)
                    => last.result = "Ok"

\* transfer_admin with an undecodable parameter, originated and sent by
\* an account that is not the admin, is answered with the parse error.
C35_Witness ==
    /\ Answered("transfer_admin")
    /\ ~Decoded
    /\ last.invoker # pre.admin
    /\ last.sender # Account(pre.admin)
    /\ last.result = "ParseParamsError"

\* ----------------------------------------------------------------- C36
\* C36: in every reachable state the accounts that have a user record are
\* exactly the accounts that were the argument of at least one
\* successful add_curator or add_validator since init; no
\* remove_curator, remove_validator, curate, validate, view_admin,
\* view_user or view_users (nor any other call) creates a record.
C36_RecordsAreGrantedAccounts ==
    /\ DOMAIN user = granted
    /\ (~Idle /\ ~(last.op \in {"add_curator", "add_validator"} /\ last.result = "Ok"))
          => DOMAIN user = DOMAIN pre.user

\* A successful remove_validator for an account that was never granted a
\* role, while another account was: still only that one has a record.
C36_Witness ==
    /\ Answered("remove_validator")
    /\ last.result = "Ok"
    /\ last.parameter.addr \notin granted
    /\ Cardinality(granted) = 1
    /\ DOMAIN user = granted

\* ----------------------------------------------------------------- C37
\* C37: the three views are read-only.  Whoever calls view_admin,
\* view_user or view_users, and whether the call succeeds or fails,
\* admin, project_contract_addr, the user map, curator_list and
\* validator_list are after the call what they were before it; view_user
\* for an account without record returns the default record and does not
\* insert it.
C37_ViewsReadOnly ==
    /\ last.op \in {"view_admin", "view_user", "view_users"} =>
          /\ admin = pre.admin
          /\ project_contract_addr = pre.project_contract_addr
          /\ user = pre.user
          /\ curator_list = pre.curator_list
          /\ validator_list = pre.validator_list
    /\ (Answered("view_user") /\ Decoded /\ ~has_key(pre.user, last.parameter.addr)) =>
          ~has_key(user, last.parameter.addr)

\* An account without record asks for its own record while another
\* account has one: it is answered with the default record and still has
\* no record.
C37_Witness ==
    /\ Answered("view_user")
    /\ Decoded
    /\ last.result = "Ok"
    /\ last.sender = Account(last.parameter.addr)
    /\ last.invoker = last.parameter.addr
    /\ DOMAIN pre.user # {}
    /\ ~has_key(pre.user, last.parameter.addr)
    /\ last.ret = UserState(FALSE, FALSE, <<>>, <<>>)
    /\ ~has_key(user, last.parameter.addr)

====
